---- MODULE Spec2Model ----
(***************************************************************************)
(* Voice-ChatBot: the duplex voice session (DeepgramVoiceAgent), the       *)
(* session registry of app.py and the appointment tools of llm/tools.py.   *)
(*                                                                         *)
(* Audio is modelled as sequences of frames [id, len]: the code never      *)
(* splits a received frame (bytearray.extend appends it whole, a flush     *)
(* hands over the whole accumulator), so a byte string is the sequence of  *)
(* the frames it is made of and its length is the sum of their lengths.    *)
(***************************************************************************)
EXTENDS Integers, Sequences, FiniteSets, TLC

VARIABLES
    \* ---- DeepgramVoiceAgent (agents/deepgram_voice_agent.py) ----
    websockets_available, \* WEBSOCKETS_AVAILABLE
    api_key_set,          \* DEEPGRAM_API_KEY is non-empty
    ws,                   \* self.ws: None (0) or the connection it refers to
    is_connected,         \* self.is_connected
    is_running,           \* self.is_running
    pydub_available,      \* PYDUB_AVAILABLE: the transcoding library was imported
    audio_buffer,         \* self.audio_buffer
    stream_buffer,        \* self.stream_buffer (the outbound accumulator)
    file_counter,         \* self.file_counter
    open,                 \* connections to the endpoint that are open
    nextConn,             \* next connection ws_connect hands out
    rcv,                  \* the _receive_messages threads, in spawn order
    ka,                   \* the _keep_alive threads, in spawn order
    caller,               \* the thread(s) calling start()/stop()
    nextFrame,            \* binary frames the endpoint has sent so far
    nEvents,              \* text messages the endpoint has sent so far
    received,             \* binary frames received since the last clear
    delivered,            \* payloads handed to on_audio_response since the last clear
    everDelivered,        \* ids of all frames ever handed to on_audio_response
    cleared,              \* ids of the frames a clear found in the accumulator
    lastMsg,              \* the message the inbound loop handled last
    lastCb,               \* the callbacks that handling invoked, in order
    lastSent,             \* what that handling sent to the endpoint
    lastOp,               \* the call that returned in the previous step, if one did
    stopRaised,           \* some stop() raised to its caller
    \* ---- the session registry (app.py) ----
    active_agents,        \* active_agents: session id -> session object, None (0) if absent
    session_modes,        \* session_modes: session id -> mode, "absent" if absent
    sessions,             \* every session object a handler created, in creation order
    handlers,             \* the threads running start_call / end_call handlers
    nCalls,               \* events the transport has dispatched so far
    lastReturn,           \* the handler that returned in the previous step, if one did
    \* ---- the appointment tools (llm/tools.py) ----
    calendar,             \* slots that hold an event on the calendar
    appointments,         \* rows of the appointments table, by slot
    lastTool,             \* the tool call that returned in the previous step, if one did
    \* ---- the session lock (self._lock) ----
    locks,                \* per session instance: the thread holding its _lock, or "free"
    lastAccess,           \* the most recent access to a field of a session, if any
    \* ---- the audio a caller hands to one session ----
    nChunks,              \* the send_audio / send_raw_pcm calls made so far
    wire,                 \* the calls whose frame went out on the connection, in wire order
    \* ---- one fallback session (VoiceAgent of agents/voice_agent.py) ----
    va,                   \* its fields _call_active, audio_buffer, _processing, _silence_timer
    timers,               \* the threading.Timer objects it created and how far each got
    workers,              \* the processing threads it started: the batch and whether it ended
    vaThreads,            \* where the audio handler and cleanup() stand
    vaLog                 \* chunks accepted, batches taken, chunks cleanup() discarded

varsAgent == <<websockets_available, api_key_set, pydub_available, ws, is_connected, is_running,
               audio_buffer, stream_buffer, file_counter, open, nextConn, rcv, ka,
               caller, nextFrame, nEvents, received, delivered,
               everDelivered, cleared, lastMsg, lastCb, lastSent, lastOp, stopRaised>>

varsRegistry == <<active_agents, session_modes, sessions, handlers, nCalls, lastReturn>>

varsTools == <<calendar, appointments, lastTool>>

varsLock == <<locks, lastAccess>>

varsWire == <<nChunks, wire>>

varsLegacy == <<va, timers, workers, vaThreads, vaLog>>

vars == <<varsAgent, varsRegistry, varsTools, varsLock, varsWire, varsLegacy>>

-----------------------------------------------------------------------------
\* Bounds of the model
MaxFrames == 3
MaxEvents == 2
MaxStarts == 2
MaxStops == 2
MaxCalls == 3
MaxInTurn == 2
MaxChunks == 3
MaxAudio == 3

\* Program constants
stream_buffer_size == 19200
max_retries == 3
retry_delay == 2

\* Lengths of the binary frames the endpoint sends: below the threshold, two of
\* them reaching it exactly, two exceeding it, and one frame above it.
FrameSizes == {9600, 12800, 24000}

None == 0
CallerThreads == {1, 2}

-----------------------------------------------------------------------------
\* Messages of the endpoint

NoMsg ==
    [kind |-> "none", id |-> 0, len |-> 0, json |-> "", type |-> "", role |-> "", content |-> FALSE, call |-> "",
     description |-> "absent", message |-> "absent"]

Binary(n, l) ==
    [kind |-> "binary", id |-> n, len |-> l, json |-> "", type |-> "", role |-> "", content |-> FALSE, call |-> "",
     description |-> "absent", message |-> "absent"]

Text(j, t, r, c) ==
    [kind |-> "text", id |-> 0, len |-> 0, json |-> j, type |-> t, role |-> r, content |-> c, call |-> "",
     description |-> "absent", message |-> "absent"]

EventTypes == {"Welcome", "SettingsApplied", "UserStartedSpeaking", "AgentThinking",
               "AgentStartedSpeaking", "AgentAudioDone", "Error"}

\* Text frames: not JSON, JSON that is no object, the tagged events, a
\* FunctionCallRequest naming one call with correlation id "abc123", and Error
\* events with and without the keys "description" and "message".
TextMsgs ==
    {Text("invalid", "", "", FALSE), Text("nonobject", "", "", FALSE)}
    \cup {Text("object", t, "", FALSE) : t \in EventTypes}
    \cup {[Text("object", "FunctionCallRequest", "", FALSE) EXCEPT !.call = "abc123"]}
    \cup {Text("object", "ConversationText", r, c) : r \in {"user", "assistant"}, c \in BOOLEAN}
    \cup {[Text("object", "Error", "", FALSE) EXCEPT !.description = "d", !.message = "m"],
          [Text("object", "Error", "", FALSE) EXCEPT !.message = "m"]}

Frame(m) == [id |-> m.id, len |-> m.len]

\* len(buffer)
RECURSIVE Size(_)
Size(buf) == IF buf = <<>> THEN 0 ELSE Head(buf).len + Size(Tail(buf))

Ids(buf) == {buf[k].id : k \in DOMAIN buf}

Call(name, arg) == [cb |-> name, arg |-> arg]

-----------------------------------------------------------------------------
\* A flush at the threshold that does not reset the accumulator
OnBinary_Mut(m, ab, sb) ==
    LET ext == Append(sb, Frame(m))
    IN  IF Size(ext) >= stream_buffer_size
        THEN [audio_buffer |-> Append(ab, Frame(m)), stream_buffer |-> ext,
              cb |-> <<Call("on_audio_response", ext)>>]
        ELSE [audio_buffer |-> Append(ab, Frame(m)), stream_buffer |-> ext, cb |-> <<>>]

\* _receive_messages, binary branch: what a binary message does to the buffers
\* and which callbacks it invokes.
OnBinary(m, ab, sb) ==
    LET ext == Append(sb, Frame(m))
    IN  IF Size(ext) >= stream_buffer_size
        THEN [audio_buffer |-> Append(ab, Frame(m)), stream_buffer |-> <<>>,
              cb |-> <<Call("on_audio_response", ext)>>]
        ELSE [audio_buffer |-> Append(ab, Frame(m)), stream_buffer |-> ext, cb |-> <<>>]

\* A clear that leaves the accumulator alone
ClearBuffers_Mut(r) == [r EXCEPT !.audio_buffer = <<>>]

\* self.audio_buffer = bytearray(); self.stream_buffer = bytearray()
ClearBuffers(r) == [r EXCEPT !.audio_buffer = <<>>, !.stream_buffer = <<>>]

\* A flush on AgentAudioDone that keeps what it delivered in the accumulator
FlushRemainderKeeps_Mut(r) ==
    IF Size(r.stream_buffer) > 0
    THEN [r EXCEPT !.cb = <<Call("on_audio_response", r.stream_buffer)>>]
    ELSE r

\* A flush on AgentAudioDone that waits for the threshold like the binary path
FlushRemainder_Mut(r) ==
    IF Size(r.stream_buffer) >= stream_buffer_size
    THEN [r EXCEPT !.cb = <<Call("on_audio_response", r.stream_buffer)>>,
                   !.stream_buffer = <<>>]
    ELSE r

\* AgentAudioDone: if len(self.stream_buffer) > 0: on_audio_response(bytes(...));
\* self.stream_buffer = bytearray()
FlushRemainder(r) ==
    IF Size(r.stream_buffer) > 0
    THEN [r EXCEPT !.cb = <<Call("on_audio_response", r.stream_buffer)>>,
                   !.stream_buffer = <<>>]
    ELSE r

\* An Error branch that reports the "message" key first
ErrorText_Mut(m) ==
    IF m.message # "absent" THEN m.message
    ELSE IF m.description # "absent" THEN m.description
    ELSE "Unknown error"

\* data.get("description", data.get("message", "Unknown error"))
ErrorText(m) ==
    IF m.description # "absent" THEN m.description
    ELSE IF m.message # "absent" THEN m.message
    ELSE "Unknown error"

\* _handle_message: what a decoded JSON object does to the buffers, which
\* callbacks it invokes and what it sends to the endpoint.
HandleMessage(m, ab, sb, fc) ==
    LET same == [audio_buffer |-> ab, stream_buffer |-> sb, file_counter |-> fc,
                 cb |-> <<>>, out |-> <<>>]
    IN  CASE m.type = "ConversationText" ->
               IF m.role = "user" /\ m.content
               THEN [same EXCEPT !.cb = <<Call("on_transcription", <<>>)>>]
               ELSE IF m.role = "assistant" /\ m.content
               THEN [same EXCEPT !.cb = <<Call("on_response_text", <<>>)>>]
               ELSE same
          [] m.type = "UserStartedSpeaking" ->
               ClearBuffers(same)
          [] m.type = "AgentThinking" ->
               [same EXCEPT !.cb = <<Call("on_agent_thinking", <<>>)>>]
          [] m.type = "AgentStartedSpeaking" ->
               [ClearBuffers(same) EXCEPT !.cb = <<Call("on_agent_speaking", <<>>)>>]
          [] m.type = "AgentAudioDone" ->
               [FlushRemainder(same) EXCEPT
                            !.file_counter = fc + 1,
                            !.cb = @ \o <<Call("on_agent_done", <<>>)>>,
                            !.audio_buffer = <<>>]
          [] m.type = "Error" ->
               [same EXCEPT !.cb = <<Call("on_error", ErrorText(m))>>]
          [] OTHER -> same

\* The payloads among a handler's callbacks, each tagged with the path it took.
Payloads(cbs, path) ==
    LET audio == SelectSeq(cbs, LAMBDA c : c.cb = "on_audio_response")
    IN  [k \in DOMAIN audio |-> [bytes |-> audio[k].arg, path |-> path]]

RECURSIVE Flatten(_)
Flatten(ps) == IF ps = <<>> THEN <<>> ELSE Head(ps).bytes \o Flatten(Tail(ps))

\* A step that handles no message leaves no record of one
Quiet == lastMsg' = NoMsg /\ lastCb' = <<>> /\ lastSent' = <<>>

IsClear(m) == m.kind = "text" /\ m.json = "object"
              /\ m.type \in {"UserStartedSpeaking", "AgentStartedSpeaking"}

-----------------------------------------------------------------------------
\* What a call of start() or stop() did: the ws_connect calls start() made and
\* how each ended, the delays it slept, its on_error invocations, the threads
\* it spawned, what it returned and the thread that called it; for stop(), the
\* fields it found and how many stop() calls in a row it completes; for
\* send_audio() and send_raw_pcm(), the chunk, the fields it found and what the
\* transcoder returned.
Other == [op |-> "other", ret |-> "none", connLog |-> <<>>, sleeps |-> <<>>,
          connected |-> FALSE, errs |-> 0, spawned |-> 0, by |-> 0, row |-> 0, pre |-> <<>>,
          chunk |-> "", is_webm |-> FALSE, transcode |-> ""]

StartRun(t) == [Other EXCEPT !.op = "start", !.by = t]

\* A retry loop that gives up without reporting the failure
RECURSIVE ConnectLoop_Mut(_, _, _, _)
ConnectLoop_Mut(attempt, outcomes, delay, acc) ==
    IF attempt >= max_retries THEN acc
    ELSE IF outcomes[attempt + 1]
    THEN [acc EXCEPT !.connLog = Append(@, TRUE), !.connected = TRUE]
    ELSE IF attempt < max_retries - 1
    THEN ConnectLoop_Mut(attempt + 1, outcomes, delay * 2,
                         [acc EXCEPT !.connLog = Append(@, FALSE), !.sleeps = Append(@, delay)])
    ELSE [acc EXCEPT !.connLog = Append(@, FALSE), !.ret = "false"]

\* A retry loop that waits the same delay before every retry
RECURSIVE ConnectLoopFlat_Mut(_, _, _, _)
ConnectLoopFlat_Mut(attempt, outcomes, delay, acc) ==
    IF attempt >= max_retries THEN acc
    ELSE IF outcomes[attempt + 1]
    THEN [acc EXCEPT !.connLog = Append(@, TRUE), !.connected = TRUE]
    ELSE IF attempt < max_retries - 1
    THEN ConnectLoopFlat_Mut(attempt + 1, outcomes, delay,
                             [acc EXCEPT !.connLog = Append(@, FALSE), !.sleeps = Append(@, delay)])
    ELSE [acc EXCEPT !.connLog = Append(@, FALSE), !.errs = @ + 1, !.ret = "false"]

\* start(): the connection retry loop. outcomes[k] says whether the k-th call of
\* ws_connect succeeds; the result lists the calls made, the delays slept and
\* whether start() has returned False from inside the loop.
RECURSIVE ConnectLoop(_, _, _, _)
ConnectLoop(attempt, outcomes, delay, acc) ==
    IF attempt >= max_retries THEN acc
    ELSE IF outcomes[attempt + 1]
    THEN [acc EXCEPT !.connLog = Append(@, TRUE), !.connected = TRUE]
    ELSE IF attempt < max_retries - 1
    THEN ConnectLoop(attempt + 1, outcomes, delay * 2,
                     [acc EXCEPT !.connLog = Append(@, FALSE), !.sleeps = Append(@, delay)])
    ELSE [acc EXCEPT !.connLog = Append(@, FALSE), !.errs = @ + 1, !.ret = "false"]

Receiver(c) == [pc |-> "loop", conn |-> c, msg |-> NoMsg]

\* _send_json: the frame goes out when the handle is set, the session is marked
\* connected and the send does not raise; a raised send is swallowed.
SendJson(w, conn, kind, fails) ==
    IF w # None /\ conn /\ w \in open /\ ~fails
    THEN <<[conn |-> w, kind |-> kind, call |-> ""]>>
    ELSE <<>>

\* A start() that does not look at the API key
ConfigMissing_Mut == ~websockets_available

\* if not WEBSOCKETS_AVAILABLE: ... return False
\* if not DEEPGRAM_API_KEY: ... return False
ConfigMissing == ~websockets_available \/ ~api_key_set

\* start(): the configuration checks, the retry loop, the two Thread.start()
\* calls and _send_settings. spawn says which Thread.start() raises, if any;
\* sendFails whether sending the Settings message raises (it is swallowed).
StartBody(t, outcomes, spawn, sendFails) ==
    IF ConfigMissing
    THEN /\ lastOp' = [StartRun(t) EXCEPT !.ret = "false", !.errs = 1]
         /\ caller' = [caller EXCEPT !.pc = "failed", !.startCalls = @ + 1]
         /\ lastSent' = <<>>
         /\ UNCHANGED <<ws, is_connected, is_running, open, nextConn, rcv, ka>>
    ELSE LET r == ConnectLoop(0, outcomes, retry_delay, StartRun(t))
         IN  IF ~r.connected
             THEN /\ lastOp' = r
                  /\ caller' = [caller EXCEPT !.pc = "failed", !.startCalls = @ + 1]
                  /\ lastSent' = <<>>
                  /\ UNCHANGED <<ws, is_connected, is_running, open, nextConn, rcv, ka>>
             ELSE /\ ws' = nextConn
                  /\ open' = open \cup {nextConn}
                  /\ nextConn' = nextConn + 1
                  /\ is_connected' = TRUE
                  /\ is_running' = TRUE
                  /\ rcv' = IF spawn = "rcv_fails" THEN rcv ELSE Append(rcv, Receiver(None))
                  /\ ka' = IF spawn = "ok" THEN Append(ka, [pc |-> "loop"]) ELSE ka
                  /\ IF spawn = "ok"
                     THEN /\ lastOp' = [r EXCEPT !.spawned = 2, !.ret = "true"]
                          /\ lastSent' = IF sendFails THEN <<>>
                                         ELSE <<[conn |-> nextConn, kind |-> "Settings", call |-> ""]>>
                          /\ caller' = [caller EXCEPT !.pc = "started", !.startCalls = @ + 1,
                                                      !.starts = @ + 1]
                     ELSE /\ lastOp' = [r EXCEPT !.spawned = IF spawn = "ka_fails" THEN 1 ELSE 0,
                                                 !.errs = @ + 1, !.ret = "false"]
                          /\ lastSent' = <<>>
                          /\ caller' = [caller EXCEPT !.pc = "failed", !.startCalls = @ + 1]

\* start() on a fresh session, as app.py calls it
Start(t, outcomes, spawn, sendFails) ==
    /\ caller.pc = "new"
    /\ StartBody(t, outcomes, spawn, sendFails)
    /\ lastMsg' = NoMsg
    /\ lastCb' = <<>>
    /\ UNCHANGED <<varsRegistry, varsTools, varsLock, varsWire, varsLegacy, websockets_available, api_key_set, pydub_available, audio_buffer, stream_buffer, file_counter,
                   nextFrame, nEvents, received, delivered, everDelivered, cleared, stopRaised>>

-----------------------------------------------------------------------------
\* A stop() that leaves the running flag set
StopEffectRunning_Mut(w) ==
    [ws |-> None, is_connected |-> FALSE, is_running |-> is_running, audio_buffer |-> <<>>,
     closed |-> IF w # None THEN {w} ELSE {}, raised |-> FALSE]

\* A stop() that closes the handle without looking at it and outside the try
StopEffect_Mut(w) ==
    [ws |-> None, is_connected |-> FALSE, is_running |-> FALSE, audio_buffer |-> <<>>,
     closed |-> IF w # None THEN {w} ELSE {}, raised |-> (w = None)]

\* stop(): the fields it leaves, the connection it closes and whether it raises.
\* Both flags are cleared under the lock; close() runs only on a set handle and
\* inside try/except, the finally clause clears the handle and audio_buffer.
StopEffect(w) ==
    [ws |-> None, is_connected |-> FALSE, is_running |-> FALSE, audio_buffer |-> <<>>,
     closed |-> IF w # None THEN {w} ELSE {}, raised |-> FALSE]

\* The fields of the session that stop() is specified over
SessionState == <<is_running, is_connected, ws, audio_buffer, stream_buffer>>

StopBody(t) ==
    LET e == StopEffect(ws)
    IN  /\ ws' = e.ws
        /\ is_connected' = e.is_connected
        /\ is_running' = e.is_running
        /\ audio_buffer' = e.audio_buffer
        /\ open' = open \ e.closed
        /\ stopRaised' = (stopRaised \/ e.raised)
        /\ lastOp' = [Other EXCEPT !.op = "stop", !.by = t,
                                   !.row = IF lastOp.op = "stop" THEN lastOp.row + 1 ELSE 1,
                                   !.pre = SessionState]
        /\ caller' = [caller EXCEPT !.pc = IF @ \in {"started", "stopping"} THEN "stopped" ELSE @,
                                    !.stopCalls = @ + 1, !.starts = 0]
        /\ Quiet
        /\ UNCHANGED <<varsRegistry, varsTools, varsLock, varsWire, varsLegacy, websockets_available, api_key_set, pydub_available, stream_buffer, file_counter,
                       nextConn, rcv, ka, nextFrame, nEvents, received, delivered,
                       everDelivered, cleared>>

\* stop() as app.py calls it: once, on a session whose start() returned True
Stop(t) ==
    /\ caller.pc = "started"
    /\ StopBody(t)

\* A stop() that clears the connected flag first
StopFirstWrite_Mut == "is_connected"

\* with self._lock: self.is_running = False; self.is_connected = False
\* The flag stop() writes first. The loops read both flags without the lock, so
\* they can run between the two writes.
StopFirstWrite == "is_running"

\* stop() up to and including its first write
StopBegin(t) ==
    /\ caller.pc = "started"
    /\ is_running' = IF StopFirstWrite = "is_running" THEN FALSE ELSE is_running
    /\ is_connected' = IF StopFirstWrite = "is_connected" THEN FALSE ELSE is_connected
    /\ caller' = [caller EXCEPT !.pc = "stopping"]
    /\ lastOp' = [Other EXCEPT !.op = "stop_begin", !.by = t]
    /\ Quiet
    /\ UNCHANGED <<varsRegistry, varsTools, varsLock, varsWire, varsLegacy, websockets_available, api_key_set, pydub_available, ws, audio_buffer,
                   stream_buffer, file_counter, open, nextConn, rcv, ka, nextFrame,
                   nEvents, received, delivered, everDelivered, cleared, stopRaised>>

\* stop() from its second write on: the other flag, close(), the finally clause
StopEnd(t) ==
    /\ caller.pc = "stopping"
    /\ StopBody(t)

\* except Exception as e: if self.is_running: (print unless the text holds
\* "closed"); self.is_connected = False. What the branch took the exception for.
ExceptRecord ==
    [Other EXCEPT !.op = "receive_failed",
                  !.ret = IF is_running THEN "error" ELSE "intentional"]

-----------------------------------------------------------------------------
\* The inbound-event loop (_receive_messages)

\* while self.is_running / if not self.ws or not self.is_connected: break /
\* enter the blocking recv() on the connection self.ws refers to
RcvCheck(i) ==
    /\ rcv[i].pc = "loop"
    /\ rcv' = [rcv EXCEPT ![i] =
                 IF ~is_running \/ ws = None \/ ~is_connected
                 THEN [@ EXCEPT !.pc = "done"]
                 ELSE [@ EXCEPT !.pc = "recv", !.conn = ws]]
    /\ lastOp' = Other
    /\ Quiet
    /\ UNCHANGED <<varsRegistry, varsTools, varsLock, varsWire, varsLegacy, websockets_available, api_key_set, pydub_available, ws, is_connected, is_running,
                   audio_buffer, stream_buffer, file_counter, open, nextConn, ka,
                   caller, nextFrame, nEvents, received, delivered, everDelivered,
                   cleared, stopRaised>>

\* recv() returns the next message of the endpoint
RcvMsg(i, m) ==
    /\ rcv[i].pc = "recv"
    /\ rcv[i].conn \in open
    /\ IF m.kind = "binary"
       THEN /\ nextFrame < MaxFrames
            /\ m.id = nextFrame + 1
            /\ nextFrame' = nextFrame + 1
            /\ received' = Append(received, Frame(m))
            /\ UNCHANGED nEvents
       ELSE /\ nEvents < MaxEvents
            /\ nEvents' = nEvents + 1
            /\ UNCHANGED <<nextFrame, received>>
    /\ rcv' = [rcv EXCEPT ![i] = [@ EXCEPT !.pc = "got", !.msg = m]]
    /\ lastOp' = Other
    /\ Quiet
    /\ UNCHANGED <<varsRegistry, varsTools, varsLock, varsWire, varsLegacy, websockets_available, api_key_set, pydub_available, ws, is_connected, is_running,
                   audio_buffer, stream_buffer, file_counter, open, nextConn, ka,
                   caller, delivered, everDelivered, cleared, stopRaised>>

\* An except branch that only leaves the loop
ExceptExit_Mut(i) ==
    /\ UNCHANGED is_connected
    /\ rcv' = [rcv EXCEPT ![i] = [@ EXCEPT !.pc = "done", !.msg = NoMsg]]

\* except Exception: if self.is_running: self.is_connected = False; break
ExceptExit(i) ==
    /\ is_connected' = IF is_running THEN FALSE ELSE is_connected
    /\ rcv' = [rcv EXCEPT ![i] = [@ EXCEPT !.pc = "done", !.msg = NoMsg]]

\* recv() raises: the connection is closed
RcvFail(i) ==
    /\ rcv[i].pc = "recv"
    /\ rcv[i].conn \notin open
    /\ ExceptExit(i)
    /\ lastOp' = ExceptRecord
    /\ Quiet
    /\ UNCHANGED <<varsRegistry, varsTools, varsLock, varsWire, varsLegacy, websockets_available, api_key_set, pydub_available, ws, is_running, audio_buffer,
                   stream_buffer, file_counter, open, nextConn, ka, caller,
                   nextFrame, nEvents, received, delivered, everDelivered, cleared,
                   stopRaised>>

\* isinstance(message, bytes): extend both buffers, flush at the threshold
ProcBinary(i) ==
    /\ rcv[i].pc = "got"
    /\ rcv[i].msg.kind = "binary"
    /\ LET r == OnBinary(rcv[i].msg, audio_buffer, stream_buffer)
           p == Payloads(r.cb, "binary")
       IN  /\ audio_buffer' = r.audio_buffer
           /\ stream_buffer' = r.stream_buffer
           /\ lastCb' = r.cb
           /\ delivered' = delivered \o p
           /\ everDelivered' = everDelivered \cup Ids(Flatten(p))
    /\ lastMsg' = rcv[i].msg
    /\ lastSent' = <<>>
    /\ rcv' = [rcv EXCEPT ![i] = [@ EXCEPT !.pc = "loop", !.msg = NoMsg]]
    /\ lastOp' = Other
    /\ UNCHANGED <<varsRegistry, varsTools, varsLock, varsWire, varsLegacy, websockets_available, api_key_set, pydub_available, ws, is_connected, is_running,
                   file_counter, open, nextConn, ka, caller, nextFrame,
                   nEvents, received, cleared, stopRaised>>

\* json.loads fails (the message is skipped) or yields no object (data.get
\* raises AttributeError, which the outer except handles)
ProcBadJson(i) ==
    /\ rcv[i].pc = "got"
    /\ rcv[i].msg.kind = "text"
    /\ rcv[i].msg.json # "object"
    /\ IF rcv[i].msg.json = "invalid"
       THEN /\ rcv' = [rcv EXCEPT ![i] = [@ EXCEPT !.pc = "loop", !.msg = NoMsg]]
            /\ UNCHANGED is_connected
       ELSE ExceptExit(i)
    /\ lastMsg' = rcv[i].msg
    /\ lastCb' = <<>>
    /\ lastSent' = <<>>
    /\ lastOp' = IF rcv[i].msg.json = "invalid" THEN Other ELSE ExceptRecord
    /\ UNCHANGED <<varsRegistry, varsTools, varsLock, varsWire, varsLegacy, websockets_available, api_key_set, pydub_available, ws, is_running, audio_buffer,
                   stream_buffer, file_counter, open, nextConn, ka, caller, nextFrame, nEvents, received, delivered, everDelivered, cleared,
                   stopRaised>>

\* json.loads yields an object: _handle_message
ProcEvent(i) ==
    /\ rcv[i].pc = "got"
    /\ rcv[i].msg.kind = "text"
    /\ rcv[i].msg.json = "object"
    /\ LET m == rcv[i].msg
           r == HandleMessage(m, audio_buffer, stream_buffer, file_counter)
           p == Payloads(r.cb, "done")
       IN  /\ audio_buffer' = r.audio_buffer
           /\ stream_buffer' = r.stream_buffer
           /\ file_counter' = r.file_counter
           /\ lastCb' = r.cb
           /\ lastSent' = r.out
           /\ everDelivered' = everDelivered \cup Ids(Flatten(p))
           /\ IF IsClear(m)
              THEN /\ cleared' = cleared \cup Ids(stream_buffer)
                   /\ received' = <<>>
                   /\ delivered' = <<>>
              ELSE /\ delivered' = delivered \o p
                   /\ UNCHANGED <<cleared, received>>
    /\ lastMsg' = rcv[i].msg
    /\ rcv' = [rcv EXCEPT ![i] = [@ EXCEPT !.pc = "loop", !.msg = NoMsg]]
    /\ lastOp' = Other
    /\ UNCHANGED <<varsRegistry, varsTools, varsLock, varsWire, varsLegacy, websockets_available, api_key_set, pydub_available, ws, is_connected, is_running,
                   open, nextConn, ka, caller, nextFrame, nEvents, stopRaised>>

\* The callbacks a received message makes the loop invoke, in order
CallbacksOf(m, ab, sb, fc) ==
    IF m.kind = "binary" THEN OnBinary(m, ab, sb).cb
    ELSE HandleMessage(m, ab, sb, fc).cb

\* The fields as the k-th callback of a message leaves them when it raises: the
\* statements before the call have run, those after it have not. The binary
\* branch has extended both buffers; AgentStartedSpeaking has cleared them;
\* AgentAudioDone has reset stream_buffer and counted the utterance only when
\* on_agent_done is reached.
RaisedIn(m, ab, sb, fc, k) ==
    LET cbs == CallbacksOf(m, ab, sb, fc)
        done == cbs[k].cb = "on_agent_done"
    IN  [audio_buffer |-> IF m.kind = "binary" THEN Append(ab, Frame(m))
                          ELSE IF m.type = "AgentStartedSpeaking" THEN <<>>
                          ELSE ab,
         stream_buffer |-> IF m.kind = "binary" THEN Append(sb, Frame(m))
                           ELSE IF m.type = "AgentStartedSpeaking" \/ done THEN <<>>
                           ELSE sb,
         file_counter |-> IF done THEN fc + 1 ELSE fc,
         cb |-> SubSeq(cbs, 1, k)]

\* The k-th callback of the message in hand raises an Exception: it leaves
\* the binary branch or _handle_message and reaches except Exception
ProcRaises(i, k) ==
    /\ rcv[i].pc = "got"
    /\ rcv[i].msg.kind = "binary" \/ rcv[i].msg.json = "object"
    /\ k \in DOMAIN CallbacksOf(rcv[i].msg, audio_buffer, stream_buffer, file_counter)
    /\ LET m == rcv[i].msg
           r == RaisedIn(m, audio_buffer, stream_buffer, file_counter, k)
           p == Payloads(r.cb, "raised")
       IN  /\ audio_buffer' = r.audio_buffer
           /\ stream_buffer' = r.stream_buffer
           /\ file_counter' = r.file_counter
           /\ lastCb' = r.cb
           /\ everDelivered' = everDelivered \cup Ids(Flatten(p))
           /\ IF IsClear(m)
              THEN /\ cleared' = cleared \cup Ids(stream_buffer)
                   /\ received' = <<>>
                   /\ delivered' = <<>>
              ELSE /\ delivered' = delivered \o p
                   /\ UNCHANGED <<cleared, received>>
    /\ ExceptExit(i)
    /\ lastMsg' = rcv[i].msg
    /\ lastSent' = <<>>
    /\ lastOp' = [ExceptRecord EXCEPT !.op = "callback_raised"]
    /\ UNCHANGED <<varsRegistry, varsTools, varsLock, varsWire, varsLegacy, websockets_available, api_key_set, pydub_available, ws, is_running,
                   open, nextConn, ka, caller, nextFrame, nEvents, stopRaised>>

\* The endpoint or the network closes a connection
ConnLost(c) ==
    /\ c \in open
    /\ open' = open \ {c}
    /\ lastOp' = Other
    /\ Quiet
    /\ UNCHANGED <<varsRegistry, varsTools, varsLock, varsWire, varsLegacy, websockets_available, api_key_set, pydub_available, ws, is_connected, is_running,
                   audio_buffer, stream_buffer, file_counter, nextConn, rcv, ka, caller,
                   nextFrame, nEvents, received, delivered, everDelivered,
                   cleared, stopRaised>>

-----------------------------------------------------------------------------
\* The keep-alive pulse (_keep_alive)

\* while self.is_running: time.sleep(5)
KaCheck(j) ==
    /\ ka[j].pc = "loop"
    /\ ka' = [ka EXCEPT ![j] = [pc |-> IF is_running THEN "sleep" ELSE "done"]]
    /\ lastOp' = Other
    /\ Quiet
    /\ UNCHANGED <<varsRegistry, varsTools, varsLock, varsWire, varsLegacy, websockets_available, api_key_set, pydub_available, ws, is_connected, is_running,
                   audio_buffer, stream_buffer, file_counter, open, nextConn, rcv,
                   caller, nextFrame, nEvents, received, delivered, everDelivered,
                   cleared, stopRaised>>

\* A pulse whose send lets the exception through to the bare except: break
KaAfterWake_Mut(raises) == IF raises THEN "done" ELSE "loop"

\* Where the pulse goes after an iteration: _send_json catches what ws.send
\* raises, so the body of the try never raises and the while loop goes on
KaAfterWake(raises) == "loop"

\* What an iteration of the pulse did: no send without a handle or a connected
\* flag, else a send that raised inside _send_json or one that went out
KaRecord(j, fails) ==
    [Other EXCEPT !.op = "keep_alive", !.by = j,
                  !.ret = IF ws = None \/ ~is_connected THEN "skipped"
                          ELSE IF fails \/ ws \notin open THEN "send_raises"
                          ELSE "sent"]

\* if self.ws and self.is_connected: self._send_json({"type": "KeepAlive"})
KaWake(j, fails) ==
    /\ ka[j].pc = "sleep"
    /\ lastSent' = SendJson(ws, is_connected, "KeepAlive", fails)
    /\ lastMsg' = NoMsg
    /\ lastCb' = <<>>
    /\ ka' = [ka EXCEPT ![j] = [pc |-> KaAfterWake(KaRecord(j, fails).ret = "send_raises")]]
    /\ lastOp' = KaRecord(j, fails)
    /\ UNCHANGED <<varsRegistry, varsTools, varsLock, varsWire, varsLegacy, websockets_available, api_key_set, pydub_available, ws, is_connected, is_running,
                   audio_buffer, stream_buffer, file_counter, open, nextConn, rcv,
                   caller, nextFrame, nEvents, received, delivered, everDelivered,
                   cleared, stopRaised>>

-----------------------------------------------------------------------------
\* Audio from the caller (send_audio, send_raw_pcm)

\* The chunks a caller hands in: no bytes, a WebM chunk, bytes that are no WebM
Chunks == {"empty", "webm", "malformed"}

\* convert_webm_to_linear16: None without the library or when the conversion
\* raises, PCM bytes otherwise
ConvertWebmToLinear16(chunk) ==
    IF ~pydub_available THEN "none"
    ELSE IF chunk = "malformed" THEN "none"
    ELSE "pcm"

\* A test that looks at self.ws only
NotConnected_Mut(w, conn) == w = None

\* if not self.ws or not self.is_connected: return
NotConnected(w, conn) == w = None \/ ~conn

\* self.ws.send(bytes) inside try/except: the frame, or nothing when send raises
WsSend(w, fails) ==
    IF w \in open /\ ~fails THEN <<[conn |-> w, kind |-> "audio", call |-> ""]>> ELSE <<>>

\* ws.send raises: the connection is closed, or the send fails for another reason
SendRaises(w, fails) == w \notin open \/ fails

NoEffect ==
    [sent |-> <<>>, cbs |-> <<>>, transcode |-> "not_called", dropped |-> FALSE,
     raised |-> FALSE]

\* A send_audio that reports a chunk it cannot convert as an error
SendAudioEffect_Mut(chunk, is_webm, w, conn, fails) ==
    IF chunk = "empty" \/ NotConnected(w, conn) THEN NoEffect
    ELSE IF ~is_webm
    THEN [NoEffect EXCEPT !.sent = WsSend(w, fails), !.raised = SendRaises(w, fails)]
    ELSE IF ~pydub_available
    THEN [NoEffect EXCEPT !.cbs = <<Call("on_error", "pydub required")>>]
    ELSE IF ConvertWebmToLinear16(chunk) = "pcm"
    THEN [NoEffect EXCEPT !.sent = WsSend(w, fails), !.transcode = "pcm",
                          !.raised = SendRaises(w, fails)]
    ELSE [NoEffect EXCEPT !.transcode = "none", !.dropped = TRUE,
                          !.cbs = <<Call("on_error", "conversion failed")>>]

\* send_audio: what it sends and which callbacks it invokes; it assigns no field
SendAudioEffect(chunk, is_webm, w, conn, fails) ==
    IF chunk = "empty" \/ NotConnected(w, conn) THEN NoEffect
    ELSE IF ~is_webm
    THEN [NoEffect EXCEPT !.sent = WsSend(w, fails), !.raised = SendRaises(w, fails)]
    ELSE IF ~pydub_available
    THEN [NoEffect EXCEPT !.cbs = <<Call("on_error", "pydub required")>>]
    ELSE IF ConvertWebmToLinear16(chunk) = "pcm"
    THEN [NoEffect EXCEPT !.sent = WsSend(w, fails), !.transcode = "pcm",
                          !.raised = SendRaises(w, fails)]
    ELSE [NoEffect EXCEPT !.transcode = "none", !.dropped = TRUE]

\* send_raw_pcm
SendRawPcmEffect(chunk, w, conn, fails) ==
    IF chunk = "empty" \/ NotConnected(w, conn) THEN NoEffect
    ELSE [NoEffect EXCEPT !.sent = WsSend(w, fails), !.raised = SendRaises(w, fails)]

\* A send path that marks the session not connected when ws.send raises
AfterSend_Mut(conn, raised) == IF raised THEN FALSE ELSE conn

\* is_connected after send_audio or send_raw_pcm: except Exception as e only
\* prints, no field is assigned
AfterSend(conn, raised) == conn

\* A call of send_audio or send_raw_pcm with effect e; fails: ws.send raises
\* if the call gets that far
SendCall(op, chunk, is_webm, fails, e) ==
    /\ lastSent' = e.sent
    /\ lastCb' = e.cbs
    /\ lastMsg' = NoMsg
    /\ lastOp' = [Other EXCEPT !.op = op, !.pre = SessionState, !.chunk = chunk,
                               !.is_webm = is_webm, !.transcode = e.transcode,
                               !.errs = Len(e.cbs),
                               !.ret = IF e.raised THEN "send_raises" ELSE "none"]
    /\ caller' = [caller EXCEPT !.dropped = @ \/ e.dropped]
    /\ is_connected' = AfterSend(is_connected, e.raised)
    /\ UNCHANGED <<varsRegistry, varsTools, varsLock, varsLegacy, websockets_available, api_key_set, pydub_available,
                   ws, is_running, audio_buffer, stream_buffer, file_counter,
                   open, nextConn, rcv, ka, nextFrame, nEvents, received, delivered,
                   everDelivered, cleared, stopRaised>>

SendAudio(chunk, is_webm, fails) ==
    /\ SendCall("send_audio", chunk, is_webm, fails,
                SendAudioEffect(chunk, is_webm, ws, is_connected, fails))
    /\ UNCHANGED varsWire

SendRawPcm(chunk, fails) ==
    /\ SendCall("send_raw_pcm", chunk, FALSE, fails,
                SendRawPcmEffect(chunk, ws, is_connected, fails))
    /\ UNCHANGED varsWire

\* A send path that puts a new frame ahead of the frames already sent
WireAfter_Mut(w, sent, n) == [k \in DOMAIN sent |-> n] \o w

\* ws.send is called inside the call and returns when the frame is written:
\* the frame of call n follows every frame written before
WireAfter(w, sent, n) == w \o [k \in DOMAIN sent |-> n]

\* The n-th call of the one caller of a session: handle_audio_chunk calling
\* send_audio(audio_bytes), handle_pcm_audio_chunk calling send_raw_pcm
CallerSendAudio(chunk, fails) ==
    /\ nChunks < MaxChunks
    /\ SendCall("send_audio", chunk, TRUE, fails,
                SendAudioEffect(chunk, TRUE, ws, is_connected, fails))
    /\ nChunks' = nChunks + 1
    /\ wire' = WireAfter(wire, SendAudioEffect(chunk, TRUE, ws, is_connected, fails).sent,
                         nChunks + 1)

CallerSendRawPcm(chunk, fails) ==
    /\ nChunks < MaxChunks
    /\ SendCall("send_raw_pcm", chunk, FALSE, fails,
                SendRawPcmEffect(chunk, ws, is_connected, fails))
    /\ nChunks' = nChunks + 1
    /\ wire' = WireAfter(wire, SendRawPcmEffect(chunk, ws, is_connected, fails).sent,
                         nChunks + 1)

InitWire ==
    /\ nChunks = 0
    /\ wire = <<>>

-----------------------------------------------------------------------------
InitAgent ==
    /\ websockets_available \in BOOLEAN
    /\ api_key_set \in BOOLEAN
    /\ ws = None
    /\ is_connected = FALSE
    /\ is_running = FALSE
    /\ audio_buffer = <<>>
    /\ stream_buffer = <<>>
    /\ file_counter = 0
    /\ open = {}
    /\ nextConn = 1
    /\ rcv = <<>>
    /\ ka = <<>>
    /\ caller = [pc |-> "new", startCalls |-> 0, stopCalls |-> 0, starts |-> 0,
                 dropped |-> FALSE]
    /\ nextFrame = 0
    /\ nEvents = 0
    /\ received = <<>>
    /\ delivered = <<>>
    /\ everDelivered = {}
    /\ cleared = {}
    /\ lastMsg = NoMsg
    /\ lastCb = <<>>
    /\ lastSent = <<>>
    /\ lastOp = Other
    /\ stopRaised = FALSE

Outcomes == [1..max_retries -> BOOLEAN]
Spawns == {"ok", "rcv_fails", "ka_fails"}
EndpointAudio == {Binary(nextFrame + 1, l) : l \in FrameSizes}
EndpointMsgs == {Binary(nextFrame + 1, l) : l \in FrameSizes} \cup TextMsgs

\* The background threads and the network
Background ==
    \/ \E i \in DOMAIN rcv : RcvCheck(i)
    \/ \E i \in DOMAIN rcv : RcvFail(i)
    \/ \E j \in DOMAIN ka : KaCheck(j)
    \/ \E j \in DOMAIN ka : \E f \in BOOLEAN : KaWake(j, f)
    \/ \E c \in open : ConnLost(c)

\* The endpoint sends agent audio only
AudioTraffic ==
    \/ \E i \in DOMAIN rcv : \E m \in EndpointAudio : RcvMsg(i, m)
    \/ \E i \in DOMAIN rcv : ProcBinary(i)

\* One session used the way app.py uses it: start() once, stop() at most once
\* and only after start() returned True.
Next ==
    \/ \E o \in Outcomes : \E s \in Spawns : \E f \in BOOLEAN : Start(1, o, s, f)
    \/ \E t \in CallerThreads : Stop(t)
    \/ \E i \in DOMAIN rcv : \E m \in EndpointMsgs : RcvMsg(i, m)
    \/ \E i \in DOMAIN rcv : ProcBinary(i)
    \/ \E i \in DOMAIN rcv : ProcBadJson(i)
    \/ \E i \in DOMAIN rcv : ProcEvent(i)
    \/ Background

\* start() called again on a session that was started before
ApiStart(t, outcomes, spawn, sendFails) ==
    /\ caller.startCalls < MaxStarts
    /\ StartBody(t, outcomes, spawn, sendFails)
    /\ lastMsg' = NoMsg
    /\ lastCb' = <<>>
    /\ UNCHANGED <<varsRegistry, varsTools, varsLock, varsWire, varsLegacy, websockets_available, api_key_set, pydub_available, audio_buffer, stream_buffer, file_counter,
                   nextFrame, nEvents, received, delivered, everDelivered, cleared, stopRaised>>

\* stop() called in any state of the session, by any thread
ApiStop(t) ==
    /\ caller.stopCalls < MaxStops
    /\ StopBody(t)

\* The session started once and stop() called at any time, any number of times
NextStop ==
    \/ \E o \in Outcomes : \E s \in Spawns : \E f \in BOOLEAN : Start(1, o, s, f)
    \/ \E t \in CallerThreads : ApiStop(t)
    \/ AudioTraffic
    \/ Background

\* The session started once and stopped once, the loops running between the
\* two flag writes of stop()
NextStopSteps ==
    \/ \E o \in Outcomes : \E s \in Spawns : \E f \in BOOLEAN : Start(1, o, s, f)
    \/ \E t \in CallerThreads : StopBegin(t)
    \/ \E t \in CallerThreads : StopEnd(t)
    \/ AudioTraffic
    \/ Background

\* The session started once, stopped at any time, and audio handed to it at any
\* time, with or without the transcoding library
NextSend ==
    \/ \E o \in Outcomes : \E s \in Spawns : \E f \in BOOLEAN : Start(1, o, s, f)
    \/ \E t \in CallerThreads : ApiStop(t)
    \/ \E c \in Chunks : \E w \in BOOLEAN : \E f \in BOOLEAN : SendAudio(c, w, f)
    \/ \E c \in Chunks : \E f \in BOOLEAN : SendRawPcm(c, f)
    \/ Background

\* One session as app.py uses it, with callbacks that may raise
NextCallbacks ==
    \/ \E o \in Outcomes : \E s \in Spawns : \E f \in BOOLEAN : Start(1, o, s, f)
    \/ \E t \in CallerThreads : Stop(t)
    \/ \E i \in DOMAIN rcv : \E m \in EndpointMsgs : RcvMsg(i, m)
    \/ \E i \in DOMAIN rcv : ProcBinary(i)
    \/ \E i \in DOMAIN rcv : ProcBadJson(i)
    \/ \E i \in DOMAIN rcv : ProcEvent(i)
    \/ \E i \in DOMAIN rcv : \E k \in 1..2 : ProcRaises(i, k)
    \/ Background

\* The session started once and stopped at any time, one caller handing in
\* numbered chunks
NextWire ==
    \/ \E o \in Outcomes : \E s \in Spawns : \E f \in BOOLEAN : Start(1, o, s, f)
    \/ \E t \in CallerThreads : ApiStop(t)
    \/ \E c \in Chunks : \E f \in BOOLEAN : CallerSendAudio(c, f)
    \/ \E c \in Chunks : \E f \in BOOLEAN : CallerSendRawPcm(c, f)
    \/ Background

\* The session started once, stopped at any time, audio handed to it at any
\* time and the endpoint sending any message
NextSendTraffic ==
    \/ \E o \in Outcomes : \E s \in Spawns : \E f \in BOOLEAN : Start(1, o, s, f)
    \/ \E t \in CallerThreads : ApiStop(t)
    \/ \E c \in Chunks : \E w \in BOOLEAN : \E f \in BOOLEAN : SendAudio(c, w, f)
    \/ \E c \in Chunks : \E f \in BOOLEAN : SendRawPcm(c, f)
    \/ \E i \in DOMAIN rcv : \E m \in TextMsgs : RcvMsg(i, m)
    \/ \E i \in DOMAIN rcv : ProcBadJson(i)
    \/ \E i \in DOMAIN rcv : ProcEvent(i)
    \/ Background

\* Agent audio with barge-in and end-of-utterance events
AudioAndClears ==
    EndpointAudio
    \cup {Text("object", t, "", FALSE) :
             t \in {"UserStartedSpeaking", "AgentStartedSpeaking", "AgentAudioDone"}}

\* The inbound loop handling audio and clears while the caller thread hands in
\* audio and calls stop() at any time
NextInterleaved ==
    \/ \E o \in Outcomes : \E s \in Spawns : \E f \in BOOLEAN : Start(1, o, s, f)
    \/ \E t \in CallerThreads : ApiStop(t)
    \/ SendRawPcm("webm", FALSE)
    \/ \E i \in DOMAIN rcv : \E m \in AudioAndClears : RcvMsg(i, m)
    \/ \E i \in DOMAIN rcv : ProcBinary(i)
    \/ \E i \in DOMAIN rcv : ProcEvent(i)
    \/ Background

\* start() called any number of times, stop() only on a started session
NextRestart ==
    \/ \E t \in CallerThreads : \E o \in Outcomes : \E s \in Spawns : \E f \in BOOLEAN :
          ApiStart(t, o, s, f)
    \/ \E t \in CallerThreads : Stop(t)
    \/ Background

-----------------------------------------------------------------------------
\* The session registry of app.py: active_agents and session_modes, and the
\* start_call / end_call handlers, which the transport runs on threads of their
\* own (async_mode='threading') and which take no lock.

SessionIds == {"s1", "s2"}

\* The ids handle_start_call makes up (uuid4) when the event carries none: the
\* k-th event gets the k-th of them, so no two events get the same
GeneratedIds == <<"g1", "g2", "g3", "g4", "g5">>

AllIds == SessionIds \cup {GeneratedIds[k] : k \in DOMAIN GeneratedIds}

\* The browser sockets (request.sid)
Clients == {"c1", "c2"}

HandlerThreads == {1, 2}

\* A session object: a DeepgramVoiceAgent (kind "voice_agent") or a VoiceAgent
\* (kind "legacy"); open: it holds an open connection to the endpoint;
\* started: start() returned True / start_streaming_stt() ran; stopped: stop()
\* or cleanup() ran on it; buffered: a VoiceAgent holds audio chunks; client:
\* the socket whose start_call created it; socketio_sid: the attribute
\* handle_disconnect looks for, which no code path sets.
NewSession(sid, kind, client) ==
    [sid |-> sid, kind |-> kind, open |-> FALSE, started |-> FALSE, stopped |-> FALSE,
     buffered |-> FALSE, client |-> client, socketio_sid |-> "unset"]

\* is_voice_agent_available()
IsVoiceAgentAvailable == websockets_available /\ api_key_set

\* DeepgramVoiceAgent.start() on a fresh session object: it leaves a connection
\* open as soon as one attempt of the retry loop succeeds, and returns True only
\* if both threads start as well.
SessionStart(s, outcomes, spawn) ==
    LET r == ConnectLoop(0, outcomes, retry_delay, StartRun(0))
    IN  IF ~r.connected THEN s
        ELSE [s EXCEPT !.open = TRUE, !.started = (spawn = "ok")]

\* DeepgramVoiceAgent.stop() on a session object
SessionStop(s) == [s EXCEPT !.open = FALSE, !.stopped = TRUE]

\* VoiceAgent.cleanup() on a session object
SessionCleanup(s) == [s EXCEPT !.stopped = TRUE, !.buffered = FALSE]

\* if mode == 'voice_agent' and hasattr(agent, 'stop'): agent.stop()
\* elif hasattr(agent, 'cleanup'): agent.cleanup()
\* (only DeepgramVoiceAgent has stop, only VoiceAgent has cleanup)
Teardown(s, mode) ==
    IF mode = "voice_agent" /\ s.kind = "voice_agent" THEN SessionStop(s)
    ELSE IF s.kind = "legacy" THEN SessionCleanup(s)
    ELSE s

\* if agent and agent.start(): register the duplex session; otherwise fall
\* through to the legacy session
AfterStart(s) == IF s.started THEN "reg_agent" ELSE "fallback"

\* A decoder that makes bytes of anything
B64Decode_Mut(payload) == "bytes"

\* base64.b64decode(audio_b64): binascii.Error for a text it cannot decode
\* (wrong padding or length); bytes otherwise, also for a text with characters
\* outside the alphabet, which it drops before decoding
B64Decode(payload) == IF payload = "undecodable" THEN "raises" ELSE "bytes"

\* active_agents.get(session_id)
Lookup(sid) == IF sid \in DOMAIN active_agents THEN active_agents[sid] ELSE None

\* session_modes.get(session_id, 'legacy')
ModeOf(sid) ==
    IF sid \in DOMAIN session_modes /\ session_modes[sid] # "absent"
    THEN session_modes[sid] ELSE "legacy"

\* A handler thread: the event it handles and its data, its local variables,
\* and what it did so far: found (the id was in active_agents when it looked),
\* emits (the events it emitted to the browser), sent (frames it sent to an
\* endpoint), changed (it changed the registry or a session), started (what
\* the duplex session's start() returned), raised (it ended with an exception).
IdleHandler ==
    [pc |-> "idle", event |-> "", sid |-> "", client |-> "", use_voice_agent |-> FALSE,
     payload |-> "", old_agent |-> None, old_mode |-> "", agent |-> None,
     found |-> FALSE, emits |-> <<>>, sent |-> 0, changed |-> FALSE,
     started |-> "not_called", raised |-> FALSE]

AllReturned == \A h \in HandlerThreads : handlers[h].pc = "idle"

Emit(event, mode) == [event |-> event, mode |-> mode]

\* Thread h goes on as rec says; at pc "idle" the handler has returned (or ended
\* with an exception) and lastReturn shows what it did
Step(h, rec) ==
    LET now == [rec EXCEPT !.changed = @ \/ active_agents' # active_agents
                                         \/ session_modes' # session_modes
                                         \/ sessions' # sessions]
    IN  IF rec.pc = "idle"
        THEN /\ handlers' = [handlers EXCEPT ![h] = IdleHandler]
             /\ lastReturn' = [now EXCEPT !.pc = "returned"]
        ELSE /\ handlers' = [handlers EXCEPT ![h] = now]
             /\ lastReturn' = IdleHandler

\* The transport runs the handler of an event on thread h. A start_call
\* without session id gets a generated one.
Dispatch(h, event, sid, use, client, payload) ==
    /\ handlers[h].pc = "idle"
    /\ nCalls < MaxCalls
    /\ event # "start_call" => ~use
    /\ event \notin {"audio_chunk", "pcm_audio_chunk"} => payload = "ok"
    /\ event = "disconnect" => sid = ""
    /\ nCalls' = nCalls + 1
    /\ handlers' = [handlers EXCEPT ![h] =
                      [IdleHandler EXCEPT
                          !.pc = IF event \in {"start_call", "end_call"} THEN "check" ELSE event,
                          !.event = event,
                          !.sid = IF event = "start_call" /\ sid = ""
                                  THEN GeneratedIds[nCalls + 1] ELSE sid,
                          !.client = client,
                          !.payload = payload,
                          !.use_voice_agent = use]]
    /\ lastReturn' = IdleHandler
    /\ UNCHANGED <<active_agents, session_modes, sessions>>
    /\ UNCHANGED <<varsAgent, varsTools, varsLock, varsWire, varsLegacy>>

\* The transport delivers the next event only when the previous handler
\* returned; which thread runs the handler makes no difference then
DispatchInTurn(event, sid, use, client, payload) ==
    /\ AllReturned
    /\ nCalls < MaxInTurn
    /\ Dispatch(CHOOSE h \in HandlerThreads : TRUE, event, sid, use, client, payload)

\* if session_id in active_agents: ...; an end_call for an id that is not in
\* the registry emits call_ended and returns
HCheck(h) ==
    /\ handlers[h].pc = "check"
    /\ UNCHANGED <<active_agents, session_modes, sessions, nCalls>>
    /\ Step(h, IF Lookup(handlers[h].sid) # None
               THEN [handlers[h] EXCEPT !.pc = "pop_agent", !.found = TRUE]
               ELSE IF handlers[h].event = "start_call"
               THEN [handlers[h] EXCEPT !.pc = "create"]
               ELSE [handlers[h] EXCEPT !.pc = "idle",
                                        !.emits = Append(@, Emit("call_ended", ""))])
    /\ UNCHANGED <<varsAgent, varsTools, varsLock, varsWire, varsLegacy>>

\* active_agents.pop(session_id): KeyError ends the handler when the entry is gone
HPopAgent(h) ==
    /\ handlers[h].pc = "pop_agent"
    /\ IF Lookup(handlers[h].sid) = None
       THEN /\ UNCHANGED active_agents
            /\ UNCHANGED <<session_modes, sessions, nCalls>>
            /\ Step(h, [handlers[h] EXCEPT !.pc = "idle", !.raised = TRUE])
       ELSE /\ active_agents' = [active_agents EXCEPT ![handlers[h].sid] = None]
            /\ UNCHANGED <<session_modes, sessions, nCalls>>
            /\ Step(h, [handlers[h] EXCEPT !.pc = "pop_mode",
                                           !.old_agent = active_agents[handlers[h].sid]])
    /\ UNCHANGED <<varsAgent, varsTools, varsLock, varsWire, varsLegacy>>

\* session_modes.pop(session_id, 'legacy')
HPopMode(h) ==
    /\ handlers[h].pc = "pop_mode"
    /\ session_modes' = [session_modes EXCEPT ![handlers[h].sid] = "absent"]
    /\ UNCHANGED <<active_agents, sessions, nCalls>>
    /\ Step(h, [handlers[h] EXCEPT !.pc = "teardown", !.old_mode = ModeOf(handlers[h].sid)])
    /\ UNCHANGED <<varsAgent, varsTools, varsLock, varsWire, varsLegacy>>

\* old_agent.stop() or old_agent.cleanup(); end_call then emits call_ended
HTeardown(h) ==
    /\ handlers[h].pc = "teardown"
    /\ sessions' = [sessions EXCEPT ![handlers[h].old_agent] = Teardown(@, handlers[h].old_mode)]
    /\ UNCHANGED <<active_agents, session_modes, nCalls>>
    /\ Step(h, IF handlers[h].event = "start_call"
               THEN [handlers[h] EXCEPT !.pc = "create"]
               ELSE [handlers[h] EXCEPT !.pc = "idle",
                                        !.emits = Append(@, Emit("call_ended", ""))])
    /\ UNCHANGED <<varsAgent, varsTools, varsLock, varsWire, varsLegacy>>

\* if use_voice_agent and is_voice_agent_available(): create_voice_agent(...),
\* agent.start(); a session that fails to start is dropped as it is.
\* Otherwise: VoiceAgent(session_id), active_agents[session_id] = agent
HCreate(h, outcomes, spawn) ==
    /\ handlers[h].pc = "create"
    /\ LET k == Len(sessions) + 1
       IN  IF handlers[h].use_voice_agent /\ IsVoiceAgentAvailable
           THEN LET s == SessionStart(NewSession(handlers[h].sid, "voice_agent",
                                                 handlers[h].client), outcomes, spawn)
                IN  /\ sessions' = Append(sessions, s)
                    /\ UNCHANGED active_agents
                    /\ UNCHANGED <<session_modes, nCalls>>
                    /\ Step(h, [handlers[h] EXCEPT
                                   !.agent = IF AfterStart(s) = "reg_agent" THEN k ELSE None,
                                   !.started = IF s.started THEN "true" ELSE "false",
                                   !.pc = AfterStart(s)])
           ELSE /\ sessions' = Append(sessions, NewSession(handlers[h].sid, "legacy",
                                                           handlers[h].client))
                /\ active_agents' = [active_agents EXCEPT ![handlers[h].sid] = k]
                /\ UNCHANGED <<session_modes, nCalls>>
                /\ Step(h, [handlers[h] EXCEPT !.agent = k, !.pc = "reg_legacy_mode"])
    /\ UNCHANGED <<varsAgent, varsTools, varsLock, varsWire, varsLegacy>>

\* Fallback after a failed start(): VoiceAgent(session_id),
\* active_agents[session_id] = agent
HFallback(h) ==
    /\ handlers[h].pc = "fallback"
    /\ sessions' = Append(sessions, NewSession(handlers[h].sid, "legacy", handlers[h].client))
    /\ active_agents' = [active_agents EXCEPT ![handlers[h].sid] = Len(sessions) + 1]
    /\ UNCHANGED <<session_modes, nCalls>>
    /\ Step(h, [handlers[h] EXCEPT !.agent = Len(sessions) + 1, !.pc = "reg_legacy_mode"])
    /\ UNCHANGED <<varsAgent, varsTools, varsLock, varsWire, varsLegacy>>

\* active_agents[session_id] = agent
HRegAgent(h) ==
    /\ handlers[h].pc = "reg_agent"
    /\ active_agents' = [active_agents EXCEPT ![handlers[h].sid] = handlers[h].agent]
    /\ UNCHANGED <<session_modes, sessions, nCalls>>
    /\ Step(h, [handlers[h] EXCEPT !.pc = "reg_mode"])
    /\ UNCHANGED <<varsAgent, varsTools, varsLock, varsWire, varsLegacy>>

\* session_modes[session_id] = 'voice_agent'; emit call_started; return
HRegMode(h) ==
    /\ handlers[h].pc = "reg_mode"
    /\ session_modes' = [session_modes EXCEPT ![handlers[h].sid] = "voice_agent"]
    /\ UNCHANGED <<active_agents, sessions, nCalls>>
    /\ Step(h, [handlers[h] EXCEPT !.pc = "idle",
                                   !.emits = Append(@, Emit("call_started", "voice_agent"))])
    /\ UNCHANGED <<varsAgent, varsTools, varsLock, varsWire, varsLegacy>>

\* session_modes[session_id] = 'legacy'
HRegLegacyMode(h) ==
    /\ handlers[h].pc = "reg_legacy_mode"
    /\ session_modes' = [session_modes EXCEPT ![handlers[h].sid] = "legacy"]
    /\ UNCHANGED <<active_agents, sessions, nCalls>>
    /\ Step(h, [handlers[h] EXCEPT !.pc = "stt"])
    /\ UNCHANGED <<varsAgent, varsTools, varsLock, varsWire, varsLegacy>>

\* agent.start_streaming_stt() (always True); emit call_started
HStartStt(h) ==
    /\ handlers[h].pc = "stt"
    /\ sessions' = [sessions EXCEPT ![handlers[h].agent].started = TRUE]
    /\ UNCHANGED <<active_agents, session_modes, nCalls>>
    /\ Step(h, [handlers[h] EXCEPT !.pc = "idle",
                                   !.emits = Append(@, Emit("call_started", "legacy"))])
    /\ UNCHANGED <<varsAgent, varsTools, varsLock, varsWire, varsLegacy>>

\* handle_disconnect: the ids whose session object has an attribute
\* socketio_sid equal to request.sid
SessionsToRemove(client) ==
    {sid \in DOMAIN active_agents :
        /\ active_agents[sid] # None
        /\ sessions[active_agents[sid]].socketio_sid = client}

\* handle_disconnect: pop and tear down every session found for the socket
HDisconnect(h) ==
    /\ handlers[h].pc = "disconnect"
    /\ LET gone == SessionsToRemove(handlers[h].client)
           torn == {active_agents[sid] : sid \in gone}
       IN  /\ active_agents' = [sid \in DOMAIN active_agents |->
                                  IF sid \in gone THEN None ELSE active_agents[sid]]
           /\ session_modes' = [sid \in DOMAIN session_modes |->
                                  IF sid \in gone THEN "absent" ELSE session_modes[sid]]
           /\ sessions' = [k \in DOMAIN sessions |->
                             IF k \in torn THEN Teardown(sessions[k], ModeOf(sessions[k].sid))
                             ELSE sessions[k]]
    /\ UNCHANGED nCalls
    /\ Step(h, [handlers[h] EXCEPT !.pc = "idle"])
    /\ UNCHANGED <<varsAgent, varsTools, varsLock, varsWire, varsLegacy>>

\* What the handler of audio_chunk / pcm_audio_chunk does with decoded bytes:
\* a DeepgramVoiceAgent registered as 'voice_agent' gets send_audio /
\* send_raw_pcm, which send a frame when the session is connected (and, for
\* send_audio, the transcoder yields PCM); otherwise audio_chunk calls
\* process_audio_chunk, which a VoiceAgent with an active call buffers and a
\* DeepgramVoiceAgent does not have (AttributeError, caught by the handler),
\* and pcm_audio_chunk only warns.
RouteAudio(event, s, mode, transcodes) ==
    IF mode = "voice_agent" /\ s.kind = "voice_agent"
    THEN [session |-> s,
          sent |-> IF s.open /\ (event = "pcm_audio_chunk" \/ transcodes) THEN 1 ELSE 0]
    ELSE IF event = "audio_chunk" /\ s.kind = "legacy" /\ s.started /\ ~s.stopped
    THEN [session |-> [s EXCEPT !.buffered = TRUE], sent |-> 0]
    ELSE [session |-> s, sent |-> 0]

\* handle_audio_chunk / handle_pcm_audio_chunk
HAudio(h, transcodes) ==
    /\ handlers[h].pc \in {"audio_chunk", "pcm_audio_chunk"}
    /\ LET hd == handlers[h]
           k == Lookup(hd.sid)
       IN  IF hd.sid = "" \/ hd.payload = "missing" \/ k = None
              \/ B64Decode(hd.payload) = "raises"
           THEN /\ UNCHANGED sessions
                /\ UNCHANGED <<active_agents, session_modes, nCalls>>
                /\ Step(h, [hd EXCEPT !.pc = "idle", !.found = (k # None)])
           ELSE LET r == RouteAudio(hd.event, sessions[k], ModeOf(hd.sid), transcodes)
                IN  /\ sessions' = [sessions EXCEPT ![k] = r.session]
                    /\ UNCHANGED <<active_agents, session_modes, nCalls>>
                    /\ Step(h, [hd EXCEPT !.pc = "idle", !.found = TRUE, !.agent = k,
                                          !.sent = r.sent])
    /\ UNCHANGED <<varsAgent, varsTools, varsLock, varsWire, varsLegacy>>

InitRegistry ==
    /\ active_agents = [sid \in AllIds |-> None]
    /\ session_modes = [sid \in AllIds |-> "absent"]
    /\ sessions = <<>>
    /\ handlers = [h \in HandlerThreads |-> IdleHandler]
    /\ nCalls = 0
    /\ lastReturn = IdleHandler

CallEvents == {"start_call", "end_call"}
Events == CallEvents \cup {"disconnect", "audio_chunk", "pcm_audio_chunk"}
Payloads64 == {"ok", "illegal_chars", "missing", "undecodable"}

\* The steps of a running start_call or end_call handler
HandlerSteps ==
    \/ \E h \in HandlerThreads : HCheck(h)
    \/ \E h \in HandlerThreads : HPopAgent(h)
    \/ \E h \in HandlerThreads : HPopMode(h)
    \/ \E h \in HandlerThreads : HTeardown(h)
    \/ \E h \in HandlerThreads : \E o \in Outcomes : \E s \in Spawns : HCreate(h, o, s)
    \/ \E h \in HandlerThreads : HFallback(h)
    \/ \E h \in HandlerThreads : HRegAgent(h)
    \/ \E h \in HandlerThreads : HRegMode(h)
    \/ \E h \in HandlerThreads : HRegLegacyMode(h)
    \/ \E h \in HandlerThreads : HStartStt(h)

\* Events of every kind, handled one after the other
NextRegistry ==
    \/ \E e \in Events : \E sid \in SessionIds \cup {""} :
       \E u \in BOOLEAN : \E c \in Clients : \E p \in Payloads64 :
          DispatchInTurn(e, sid, u, c, p)
    \/ HandlerSteps
    \/ \E h \in HandlerThreads : HDisconnect(h)
    \/ \E h \in HandlerThreads : \E t \in BOOLEAN : HAudio(h, t)

\* start_call and end_call events of one browser, handled concurrently
NextRegistryConc ==
    \/ \E h \in HandlerThreads : \E e \in CallEvents : \E sid \in SessionIds :
       \E u \in BOOLEAN :
          Dispatch(h, e, sid, u, "c1", "ok")
    \/ HandlerSteps

-----------------------------------------------------------------------------
\* The fallback VoiceAgent (agents/voice_agent.py): audio chunks are buffered,
\* a silence timer or cleanup() takes the buffer as one batch, and a worker
\* thread runs the batch through transcription, reply and speech.

\* if len(audio_data) < 1000: too small, likely noise
NoiseLimit == 1000

\* Lengths of the chunks a browser sends: below and above the noise limit
ChunkSizes == {400, 1200}

NoTimer == 0

\* A _process_buffered_audio that does not look at _processing
TakeBatch_Mut(buf, processing) ==
    IF buf = <<>>
    THEN [taken |-> FALSE, batch |-> <<>>, audio_buffer |-> buf, processing |-> processing]
    ELSE [taken |-> TRUE, batch |-> buf, audio_buffer |-> <<>>, processing |-> TRUE]

\* with self._lock: if not self.audio_buffer or self._processing: return
\* self._processing = True; audio_data = b''.join(self.audio_buffer);
\* self.audio_buffer = []
TakeBatch(buf, processing) ==
    IF buf = <<>> \/ processing
    THEN [taken |-> FALSE, batch |-> <<>>, audio_buffer |-> buf, processing |-> processing]
    ELSE [taken |-> TRUE, batch |-> buf, audio_buffer |-> <<>>, processing |-> TRUE]

\* A batch the call of _process_buffered_audio hands to a worker thread
StartsWorker(t) == t.taken /\ Size(t.batch) >= NoiseLimit

\* _process_buffered_audio: take the batch under the lock; a batch below the
\* noise limit is dropped and _processing reset; otherwise a worker thread is
\* started, and when Thread.start() raises _processing stays set
ProcessBufferedAudio(spawnFails) ==
    LET t == TakeBatch(va.audio_buffer, va._processing)
    IN  /\ va' = [va EXCEPT !.audio_buffer = t.audio_buffer,
                            !._processing = t.processing /\ (~t.taken \/ StartsWorker(t))]
        /\ workers' = IF StartsWorker(t) /\ ~spawnFails
                      THEN Append(workers, [batch |-> t.batch, pc |-> "running"])
                      ELSE workers
        /\ vaLog' = IF t.taken THEN [vaLog EXCEPT !.batches = Append(@, t.batch)] ELSE vaLog

\* start_streaming_stt, called once by handle_start_call
VaStart ==
    /\ ~vaThreads.started
    /\ va' = [va EXCEPT !.audio_buffer = <<>>, !._call_active = TRUE, !._processing = FALSE]
    /\ vaThreads' = [vaThreads EXCEPT !.started = TRUE]
    /\ UNCHANGED <<timers, workers, vaLog>>
    /\ UNCHANGED <<varsAgent, varsRegistry, varsTools, varsLock, varsWire>>

\* process_audio_chunk: if not self._call_active: return
PacCheck ==
    /\ vaThreads.audio = "idle"
    /\ vaLog.nAudio < MaxAudio
    /\ va._call_active
    /\ vaThreads' = [vaThreads EXCEPT !.audio = "append"]
    /\ UNCHANGED <<va, timers, workers, vaLog>>
    /\ UNCHANGED <<varsAgent, varsRegistry, varsTools, varsLock, varsWire>>

\* Timer.cancel(): a timer that has not fired yet never will
Cancel(ts, t) ==
    IF t # NoTimer /\ ts[t] = "armed" THEN [ts EXCEPT ![t] = "cancelled"] ELSE ts

\* process_audio_chunk: append under the lock, cancel the running silence
\* timer and start a new one
PacAppend(len) ==
    /\ vaThreads.audio = "append"
    /\ va' = [va EXCEPT !.audio_buffer = Append(@, [id |-> vaLog.nAudio + 1, len |-> len]),
                        !._silence_timer = Len(timers) + 1]
    /\ timers' = Append(Cancel(timers, va._silence_timer), "armed")
    /\ vaLog' = [vaLog EXCEPT !.nAudio = @ + 1]
    /\ vaThreads' = [vaThreads EXCEPT !.audio = "idle"]
    /\ UNCHANGED workers
    /\ UNCHANGED <<varsAgent, varsRegistry, varsTools, varsLock, varsWire>>

\* check_silence after 1.5 s: if not self._call_active: return
TimerFire(t) ==
    /\ timers[t] = "armed"
    /\ timers' = [timers EXCEPT ![t] = IF va._call_active THEN "running" ELSE "done"]
    /\ UNCHANGED <<va, workers, vaThreads, vaLog>>
    /\ UNCHANGED <<varsAgent, varsRegistry, varsTools, varsLock, varsWire>>

\* check_silence: self._process_buffered_audio()
TimerProcess(t, spawnFails) ==
    /\ timers[t] = "running"
    /\ ProcessBufferedAudio(spawnFails)
    /\ timers' = [timers EXCEPT ![t] = "done"]
    /\ UNCHANGED vaThreads
    /\ UNCHANGED <<varsAgent, varsRegistry, varsTools, varsLock, varsWire>>

\* process(): the pipeline ends, with or without an exception;
\* finally: with self._lock: self._processing = False
WorkerDone(w) ==
    /\ workers[w].pc = "running"
    /\ workers' = [workers EXCEPT ![w].pc = "done"]
    /\ va' = [va EXCEPT !._processing = FALSE]
    /\ UNCHANGED <<timers, vaThreads, vaLog>>
    /\ UNCHANGED <<varsAgent, varsRegistry, varsTools, varsLock, varsWire>>

\* cleanup(): if self.audio_buffer: self._process_buffered_audio(); an
\* exception of Thread.start() ends cleanup() here
CleanupBegin(spawnFails) ==
    /\ vaThreads.started
    /\ vaThreads.cleanup = "idle"
    /\ IF va.audio_buffer # <<>>
       THEN ProcessBufferedAudio(spawnFails)
       ELSE UNCHANGED <<va, workers, vaLog>>
    /\ vaThreads' = [vaThreads EXCEPT !.cleanup =
                        IF /\ va.audio_buffer # <<>>
                           /\ StartsWorker(TakeBatch(va.audio_buffer, va._processing))
                           /\ spawnFails
                        THEN "raised" ELSE "cancel"]
    /\ UNCHANGED timers
    /\ UNCHANGED <<varsAgent, varsRegistry, varsTools, varsLock, varsWire>>

\* cleanup(): self._silence_timer.cancel(); self._silence_timer = None
CleanupCancel ==
    /\ vaThreads.cleanup = "cancel"
    /\ timers' = Cancel(timers, va._silence_timer)
    /\ va' = [va EXCEPT !._silence_timer = NoTimer]
    /\ vaThreads' = [vaThreads EXCEPT !.cleanup = "clear"]
    /\ UNCHANGED <<workers, vaLog>>
    /\ UNCHANGED <<varsAgent, varsRegistry, varsTools, varsLock, varsWire>>

\* cleanup(): with self._lock: self._call_active = False; self.audio_buffer = []
CleanupClear ==
    /\ vaThreads.cleanup = "clear"
    /\ va' = [va EXCEPT !._call_active = FALSE, !.audio_buffer = <<>>]
    /\ vaLog' = [vaLog EXCEPT !.discarded = @ \cup Ids(va.audio_buffer)]
    /\ vaThreads' = [vaThreads EXCEPT !.cleanup = "done"]
    /\ UNCHANGED <<timers, workers>>
    /\ UNCHANGED <<varsAgent, varsRegistry, varsTools, varsLock, varsWire>>

\* VoiceAgent.__init__
InitLegacy ==
    /\ va = [_call_active |-> FALSE, audio_buffer |-> <<>>, _processing |-> FALSE,
             _silence_timer |-> NoTimer]
    /\ timers = <<>>
    /\ workers = <<>>
    /\ vaThreads = [started |-> FALSE, audio |-> "idle", cleanup |-> "idle"]
    /\ vaLog = [nAudio |-> 0, batches |-> <<>>, discarded |-> {}]

\* What runs without the browser doing anything: timers and workers
LegacyThreads ==
    \/ \E t \in DOMAIN timers : TimerFire(t)
    \/ \E t \in DOMAIN timers : \E f \in BOOLEAN : TimerProcess(t, f)
    \/ \E w \in DOMAIN workers : WorkerDone(w)

NextLegacy ==
    \/ VaStart
    \/ PacCheck
    \/ \E l \in ChunkSizes : PacAppend(l)
    \/ \E f \in BOOLEAN : CleanupBegin(f)
    \/ CleanupCancel
    \/ CleanupClear
    \/ LegacyThreads

-----------------------------------------------------------------------------
\* The appointment tools of llm/tools.py and their collaborators

Slots == {"10:00", "11:00"}

\* GoogleCalendarService.get_service(): None without valid credentials,
\* otherwise what build() yields, which may raise
GetService(creds_valid, build_raises) ==
    IF ~creds_valid THEN "None"
    ELSE IF build_raises THEN "raises"
    ELSE "service"

\* GoogleCalendarService.is_slot_available(): "True", "False", "None", or "raises"
\* when the call does not return
IsSlotAvailable(slot, creds_valid, build_raises, query_raises) ==
    LET service == GetService(creds_valid, build_raises)
        busy_list == {slot} \cap calendar
    IN  IF service = "raises" THEN "raises"
        ELSE IF service = "None" THEN "None"
        ELSE IF query_raises THEN "None"
        ELSE IF Cardinality(busy_list) = 0 THEN "True"
        ELSE "False"

\* A tool that tests the result for truth only
AvailabilityStatus_Mut(is_free) ==
    IF is_free = "raises" THEN "error"
    ELSE IF is_free = "True" THEN "available"
    ELSE "busy"

\* check_availability_tool from the result of is_slot_available onwards
AvailabilityStatus(is_free) ==
    IF is_free = "raises" THEN "error"
    ELSE IF is_free = "None" THEN "error"
    ELSE IF is_free = "True" THEN "available"
    ELSE "busy"

\* GoogleCalendarService.create_event(): insert is what events().insert().execute()
\* does: "ok", "http_error" (HttpError, caught) or "raises" (anything else)
CreateEvent(creds_valid, build_raises, insert) ==
    LET service == GetService(creds_valid, build_raises)
    IN  IF service = "raises" THEN "raises"
        ELSE IF service = "None" THEN "None"
        ELSE IF insert = "ok" THEN "event"
        ELSE IF insert = "http_error" THEN "None"
        ELSE "raises"

\* A tool that lets a failed write to the appointments table reach the outer handler
BookingStatus_Mut(event, db) ==
    IF event = "raises" THEN "error"
    ELSE IF event # "event" THEN "error"
    ELSE IF db = "raises" THEN "error"
    ELSE "success"

\* book_appointment_tool from the result of create_event onwards. db is what
\* the write to the appointments table does: "commits", "no_connection"
\* (get_connection returned None) or "raises".
BookingStatus(event, db) ==
    IF event = "raises" THEN "error"
    ELSE IF event # "event" THEN "error"
    ELSE "success"

NoTool ==
    [tool |-> "none", args |-> "", slot |-> "", is_free |-> "", event |-> "", db |-> "",
     status |-> "", msg |-> FALSE, raised |-> FALSE]

\* The argument blobs a tool is called with: a complete one, text that is no
\* JSON, JSON that is no object, and objects without the date field, with a
\* date that is not ISO 8601, without user_name and without user_email.
ArgBlobs == {"valid", "invalid_json", "non_object", "missing_date", "non_iso",
             "missing_name", "missing_email"}

\* check_availability_tool up to the call of is_slot_available: json.loads,
\* args.get("date_time") and datetime.fromisoformat return normally
CheckArgsParse(args) == args \notin {"invalid_json", "non_object", "missing_date", "non_iso"}

\* book_appointment_tool up to the call of create_event: json.loads, the
\* args.get calls and datetime.fromisoformat(start_str) return normally;
\* user_name and user_email are read with args.get and not looked at
BookArgsParse(args) == args \notin {"invalid_json", "non_object", "missing_date", "non_iso"}

\* What a tool hands to its caller: every return statement of both tools is
\* json.dumps of an object with "status" and "msg", and the outer
\* except Exception lets nothing out
ToolReturn(tool, args, slot, status) ==
    [NoTool EXCEPT !.tool = tool, !.args = args, !.slot = slot, !.status = status,
                   !.msg = TRUE, !.raised = FALSE]

\* check_availability_tool(args_json)
CheckAvailabilityTool(slot, args, creds_valid, build_raises, query_raises) ==
    /\ LET args_ok == CheckArgsParse(args)
           is_free == IF args_ok
                      THEN IsSlotAvailable(slot, creds_valid, build_raises, query_raises)
                      ELSE "not_called"
       IN  lastTool' = [ToolReturn("check_availability", args, slot,
                                   IF args_ok THEN AvailabilityStatus(is_free) ELSE "error")
                            EXCEPT !.is_free = is_free]
    /\ UNCHANGED <<calendar, appointments>>
    /\ UNCHANGED <<varsAgent, varsRegistry, varsLock, varsWire, varsLegacy>>

\* book_appointment_tool(args_json, session_id)
BookAppointmentTool(slot, args, creds_valid, build_raises, insert, db) ==
    /\ LET args_ok == BookArgsParse(args)
           event == IF args_ok THEN CreateEvent(creds_valid, build_raises, insert)
                    ELSE "not_called"
       IN  /\ lastTool' = [ToolReturn("book_appointment", args, slot,
                                       IF args_ok THEN BookingStatus(event, db) ELSE "error")
                                EXCEPT !.event = event,
                                       !.db = IF event = "event" THEN db ELSE "not_called"]
           /\ calendar' = IF event = "event" THEN calendar \cup {slot} ELSE calendar
           /\ appointments' = IF event = "event" /\ db = "commits"
                              THEN appointments \cup {slot} ELSE appointments
    /\ UNCHANGED <<varsAgent, varsRegistry, varsLock, varsWire, varsLegacy>>

\* Somebody else puts an event on the calendar, or removes one
CalendarChange(slot) ==
    /\ calendar' = IF slot \in calendar THEN calendar \ {slot} ELSE calendar \cup {slot}
    /\ lastTool' = NoTool
    /\ UNCHANGED appointments
    /\ UNCHANGED <<varsAgent, varsRegistry, varsLock, varsWire, varsLegacy>>

InitTools ==
    /\ calendar = {}
    /\ appointments = {}
    /\ lastTool = NoTool

InsertOutcomes == {"ok", "http_error", "raises"}
DbOutcomes == {"commits", "no_connection", "raises"}

NextTools ==
    \/ \E slot \in Slots : \E a \in ArgBlobs : \E c \in BOOLEAN : \E b \in BOOLEAN : \E q \in BOOLEAN :
          CheckAvailabilityTool(slot, a, c, b, q)
    \/ \E slot \in Slots : \E a \in ArgBlobs : \E c \in BOOLEAN : \E b \in BOOLEAN :
       \E i \in InsertOutcomes : \E d \in DbOutcomes :
          BookAppointmentTool(slot, a, c, b, i, d)
    \/ \E slot \in Slots : CalendarChange(slot)

-----------------------------------------------------------------------------
\* The lock discipline of DeepgramVoiceAgent: where the caller thread, the
\* inbound loop and the keep-alive pulse read and write is_connected,
\* is_running and stream_buffer, and whether the statement is inside a
\* 'with self._lock' block.

\* Two session instances, each with the _lock its __init__ created
Instances == {"agent1", "agent2"}

SessionThreads == {"caller", "receiver", "keep_alive"}

Site(t, l, f, m, locked) ==
    [thread |-> t, line |-> l, field |-> f, mode |-> m, locked |-> locked]

\* start(), stop(), send_audio(), send_raw_pcm(), _send_settings() and the
\* connected property, on the caller thread
CallerSites ==
    {Site("caller", "220", "is_connected", "write", TRUE),
     Site("caller", "221", "is_running", "write", TRUE),
     Site("caller", "326", "is_connected", "read", FALSE),
     Site("caller", "463", "is_connected", "read", FALSE),
     Site("caller", "500", "is_connected", "read", FALSE),
     Site("caller", "513", "is_running", "write", TRUE),
     Site("caller", "514", "is_connected", "write", TRUE),
     Site("caller", "538", "is_connected", "read", TRUE)}

\* _receive_messages and _handle_message
ReceiverSites ==
    {Site("receiver", "333", "is_running", "read", FALSE),
     Site("receiver", "335", "is_connected", "read", FALSE),
     Site("receiver", "345", "stream_buffer", "write", FALSE),
     Site("receiver", "346", "stream_buffer", "read", FALSE),
     Site("receiver", "348", "stream_buffer", "read", FALSE),
     Site("receiver", "349", "stream_buffer", "write", FALSE),
     Site("receiver", "360", "is_running", "read", FALSE),
     Site("receiver", "365", "is_connected", "write", TRUE),
     Site("receiver", "401", "stream_buffer", "write", FALSE),
     Site("receiver", "412", "stream_buffer", "write", FALSE),
     Site("receiver", "418", "stream_buffer", "read", FALSE),
     Site("receiver", "420", "stream_buffer", "read", FALSE),
     Site("receiver", "421", "stream_buffer", "write", FALSE)}

\* _keep_alive and the _send_json it calls
KeepAliveSites ==
    {Site("keep_alive", "440", "is_running", "read", FALSE),
     Site("keep_alive", "443", "is_connected", "read", FALSE),
     Site("keep_alive", "326", "is_connected", "read", FALSE)}

AccessSites == CallerSites \cup ReceiverSites \cup KeepAliveSites

NoAccess ==
    [instance |-> "", thread |-> "", line |-> "", field |-> "", mode |-> "", held |-> FALSE]

\* with self._lock: the thread enters a block it has
Acquire(a, t) ==
    /\ locks[a] = "free"
    /\ \E site \in AccessSites : site.thread = t /\ site.locked
    /\ locks' = [locks EXCEPT ![a] = t]
    /\ UNCHANGED lastAccess
    /\ UNCHANGED <<varsAgent, varsRegistry, varsTools, varsWire, varsLegacy>>

\* The end of the with block
Release(a, t) ==
    /\ locks[a] = t
    /\ locks' = [locks EXCEPT ![a] = "free"]
    /\ UNCHANGED lastAccess
    /\ UNCHANGED <<varsAgent, varsRegistry, varsTools, varsWire, varsLegacy>>

\* A thread of instance a executes the statement at a site: inside its with
\* block if the statement is in one, outside any otherwise
Access(a, site) ==
    /\ IF site.locked THEN locks[a] = site.thread ELSE locks[a] # site.thread
    /\ lastAccess' = [instance |-> a, thread |-> site.thread, line |-> site.line,
                      field |-> site.field, mode |-> site.mode,
                      held |-> (locks[a] = site.thread)]
    /\ UNCHANGED locks
    /\ UNCHANGED <<varsAgent, varsRegistry, varsTools, varsWire, varsLegacy>>

InitLock ==
    /\ locks = [a \in Instances |-> "free"]
    /\ lastAccess = NoAccess

NextLock ==
    \/ \E a \in Instances : \E t \in SessionThreads : Acquire(a, t)
    \/ \E a \in Instances : \E t \in SessionThreads : Release(a, t)
    \/ \E a \in Instances : \E site \in AccessSites : Access(a, site)

-----------------------------------------------------------------------------
\* Claims about the session

\* The frames a receiver has taken from the connection and not yet handled
InFlight ==
    LET held == SelectSeq(rcv, LAMBDA r : r.pc = "got" /\ r.msg.kind = "binary")
    IN  [k \in DOMAIN held |-> Frame(held[k].msg)]

\* C1: since the last clear, the payloads handed to on_audio_response, in
\* delivery order, followed by the accumulator (and the frame being handled, if
\* any) are exactly the frames received, in arrival order; every payload of the
\* binary-frame path is at least stream_buffer_size long, so a shorter payload
\* can only be the flush on AgentAudioDone.
C1_FlushInvariant ==
    /\ Flatten(delivered) \o stream_buffer \o InFlight = received
    /\ \A k \in DOMAIN delivered :
          /\ delivered[k].path = "binary" => Size(delivered[k].bytes) >= stream_buffer_size
          /\ Size(delivered[k].bytes) < stream_buffer_size => delivered[k].path = "done"

\* A chunk made of two frames was flushed at the threshold and a short
\* remainder was flushed on AgentAudioDone.
C1_Witness ==
    /\ Len(delivered) = 2
    /\ delivered[1].path = "binary" /\ Len(delivered[1].bytes) = 2
    /\ delivered[2].path = "done" /\ Size(delivered[2].bytes) < stream_buffer_size

\* C2: frames that a UserStartedSpeaking or AgentStartedSpeaking event found in
\* the accumulator are never handed to on_audio_response, then or later, and
\* the accumulator is empty right after the event is handled.
C2_BargeInClears ==
    /\ cleared \cap everDelivered = {}
    /\ IsClear(lastMsg) => stream_buffer = <<>>

\* A clear discarded a frame and a later flush delivered later audio
C2_Witness ==
    /\ cleared # {}
    /\ delivered # <<>>
    /\ \E k \in DOMAIN delivered : delivered[k].path = "done"

\* C4 (as claimed): handling a FunctionCallRequest sends exactly one
\* FunctionCallResponse carrying the request's correlation id, and the loop
\* goes on.
C4_FunctionCallAnswered ==
    lastMsg.type = "FunctionCallRequest" =>
        /\ Len(lastSent) = 1
        /\ lastSent[1].kind = "FunctionCallResponse"
        /\ lastSent[1].call = lastMsg.call
        /\ \A i \in DOMAIN rcv : rcv[i].pc # "done"

Alive(threads) == Cardinality({k \in DOMAIN threads : threads[k].pc # "done"})

\* C3 (as claimed): when a second start() without an intervening stop() has
\* returned True, one connection is open, one inbound-event loop and one
\* keep-alive pulse are running.
C3_OneConnectionAfterRestart ==
    (lastOp.op = "start" /\ lastOp.ret = "true" /\ caller.starts >= 2) =>
        /\ Cardinality(open) = 1
        /\ Alive(rcv) = 1
        /\ Alive(ka) = 1

\* C8: a stop() that directly follows a stop() leaves is_running, is_connected,
\* ws, audio_buffer and stream_buffer as the first one left them, and no stop()
\* raises, whichever thread calls it and whether or not the session was started.
C8_StopIdempotent ==
    /\ ~stopRaised
    /\ (lastOp.op = "stop" /\ lastOp.row >= 2) => SessionState = lastOp.pre

\* A started session that received audio was stopped twice in a row, the second
\* time by a thread other than the one that started it
C8_Witness ==
    /\ lastOp.op = "stop" /\ lastOp.row = 2 /\ lastOp.by = 2
    /\ caller.pc = "stopped"
    /\ stream_buffer # <<>>

\* C12: without the websockets library or without DEEPGRAM_API_KEY, start()
\* returns False having made no connection attempt, invoked on_error once and
\* spawned no thread, and the session is never connected or running and never
\* holds a connection or a background thread.
C12_ConfigurationError ==
    (~websockets_available \/ ~api_key_set) =>
        /\ ~is_connected /\ ~is_running /\ ws = None
        /\ open = {} /\ rcv = <<>> /\ ka = <<>>
        /\ lastOp.op = "start" =>
              /\ lastOp.ret = "false"
              /\ lastOp.connLog = <<>>
              /\ lastOp.errs = 1
              /\ lastOp.spawned = 0

\* start() has just returned on a host with the library and without the key
C12_Witness ==
    /\ websockets_available /\ ~api_key_set
    /\ lastOp.op = "start" /\ lastOp.ret = "false" /\ lastOp.errs = 1
    /\ caller.pc = "failed"

-----------------------------------------------------------------------------
\* Claims about the session registry

\* Session object k is the registry's entry for its session id
Registered(k) == active_agents[sessions[k].sid] = k

\* C5 (as claimed): when events are handled one after the other and the handlers
\* have returned, every session that is not the registry's entry for its id
\* holds no open connection, and has been stopped if it was started.
C5_NoConnectionWithoutEntry ==
    AllReturned =>
        \A k \in DOMAIN sessions :
            ~Registered(k) =>
                /\ ~sessions[k].open
                /\ sessions[k].started => sessions[k].stopped

\* C6 (as claimed): when handlers run concurrently and all have returned, no
\* session that was started and is not the registry's entry for its id is left
\* with an open connection.
C6_NoLeakUnderInterleaving ==
    AllReturned =>
        \A k \in DOMAIN sessions :
            (sessions[k].started /\ ~Registered(k)) => ~sessions[k].open

\* C13 (as claimed): when the handler of a start_call event returns (the id supplied or
\* generated), the registry has an entry for the id, and the handler emitted
\* exactly one call_started whose mode is the registered mode: 'voice_agent'
\* with a duplex session when start() returned True, otherwise 'legacy' with a
\* VoiceAgent.
C13_StartCallRegistersAndAcks ==
    (lastReturn.pc = "returned" /\ lastReturn.event = "start_call") =>
        /\ ~lastReturn.raised
        /\ lastReturn.sid # ""
        /\ Lookup(lastReturn.sid) # None
        /\ Len(lastReturn.emits) = 1
        /\ lastReturn.emits[1].event = "call_started"
        /\ lastReturn.emits[1].mode = session_modes[lastReturn.sid]
        /\ sessions[Lookup(lastReturn.sid)].kind = session_modes[lastReturn.sid]
        /\ session_modes[lastReturn.sid] =
              (IF lastReturn.started = "true" THEN "voice_agent" ELSE "legacy")

\* C14 (as claimed): when the handler of an end_call event returns, it has
\* emitted call_ended and raised nothing; if the id was registered, the session
\* it found is torn down (stopped, no open connection) and is no longer the
\* registry's entry; if the id was not registered, the handler changed nothing.
C14_EndCallTearsDownThenAcks ==
    (lastReturn.pc = "returned" /\ lastReturn.event = "end_call") =>
        /\ ~lastReturn.raised
        /\ lastReturn.emits = <<Emit("call_ended", "")>>
        /\ lastReturn.found =>
              /\ lastReturn.old_agent # None
              /\ sessions[lastReturn.old_agent].stopped
              /\ ~sessions[lastReturn.old_agent].open
              /\ ~Registered(lastReturn.old_agent)
        /\ ~lastReturn.found => ~lastReturn.changed

\* C15 (as claimed): when the handler of a browser socket's disconnect event
\* has returned, no session of a call started over that socket is still the
\* registry's entry for its id.
C15_DisconnectRemovesSessions ==
    (lastReturn.pc = "returned" /\ lastReturn.event = "disconnect") =>
        \A k \in DOMAIN sessions :
            sessions[k].client = lastReturn.client => ~Registered(k)

\* C16: when the handler of an audio_chunk or pcm_audio_chunk event returns and
\* the event had no session id, or an id that is not in the registry, or no
\* payload, or a payload that cannot be decoded, then the handler sent no frame
\* to an endpoint, emitted nothing, raised nothing, and changed neither the
\* registry nor any session.
C16_BadAudioEventIgnored ==
    (/\ lastReturn.pc = "returned"
     /\ lastReturn.event \in {"audio_chunk", "pcm_audio_chunk"}
     /\ \/ lastReturn.sid = ""
        \/ ~lastReturn.found
        \/ lastReturn.payload \in {"missing", "undecodable"}) =>
        /\ lastReturn.sent = 0
        /\ lastReturn.emits = <<>>
        /\ ~lastReturn.raised
        /\ ~lastReturn.changed

\* C16 witness: an audio_chunk with a payload that cannot be decoded has been
\* handled for an id whose registered duplex session is connected
C16_Witness ==
    /\ lastReturn.pc = "returned" /\ lastReturn.event = "audio_chunk"
    /\ lastReturn.payload = "undecodable"
    /\ lastReturn.found
    /\ sessions[Lookup(lastReturn.sid)].kind = "voice_agent"
    /\ sessions[Lookup(lastReturn.sid)].open
    /\ session_modes[lastReturn.sid] = "voice_agent"
    /\ lastReturn.sent = 0

-----------------------------------------------------------------------------
\* Claims about a lost connection

\* C19: a step in which an inbound loop leaves its recv() or its message
\* handling by an exception ends that loop and, if the session is running,
\* leaves is_connected False; a loop that ended stays ended; and only a call of
\* start() opens a connection or sets is_connected.
C19_ReceiveFailureEndsLoop ==
    [][/\ \A i \in DOMAIN rcv :
            /\ (rcv[i].pc \in {"recv", "got"} /\ rcv'[i].pc = "done" /\ is_running)
                   => ~is_connected'
            /\ rcv[i].pc = "done" => rcv'[i].pc = "done"
       /\ nextConn' # nextConn => lastOp'.op = "start"
       /\ open' \subseteq open \cup {nextConn}
       /\ (~is_connected /\ is_connected') => lastOp'.op = "start"]_vars

\* C19 witness: on a running session the inbound loop has ended on its closed
\* connection, is_connected is False and no other connection was opened
C19_Witness ==
    /\ is_running /\ ~is_connected
    /\ \E i \in DOMAIN rcv :
          /\ rcv[i].pc = "done"
          /\ rcv[i].conn = ws
          /\ rcv[i].conn \notin open
    /\ open = {}
    /\ nextConn = 2

\* The connection of a session whose start() returned True, and which was not
\* stopped, is lost while its inbound loop waits in recv()
LostWhileActive ==
    /\ caller.pc = "started"
    /\ is_running /\ is_connected /\ ws # None /\ ws \notin open
    /\ \E i \in DOMAIN rcv : rcv[i].pc = "recv" /\ rcv[i].conn = ws

\* The closed state: both flags False and no background thread left
Closed ==
    /\ ~is_connected /\ ~is_running
    /\ Alive(rcv) = 0 /\ Alive(ka) = 0

\* C20 (as claimed): when the connection is lost while the session is active,
\* the session ends closed: is_connected and is_running are False and both
\* background threads have ended.
C20_LossEndsClosed == LostWhileActive ~> Closed

-----------------------------------------------------------------------------
\* Claims about the accumulator under interleaving

\* C23: in every step of the inbound loop, of stop() or of the caller thread,
\* a payload handed to on_audio_response holds no frame that was handed over
\* before, holds no frame twice, and holds only frames received since the last
\* clear (UserStartedSpeaking or AgentStartedSpeaking).
C23_NoDoubledOrMixedAudio ==
    [][\A k \in DOMAIN lastCb' :
          lastCb'[k].cb = "on_audio_response" =>
              /\ Ids(lastCb'[k].arg) \cap everDelivered = {}
              /\ Cardinality(Ids(lastCb'[k].arg)) = Len(lastCb'[k].arg)
              /\ Ids(lastCb'[k].arg) \subseteq Ids(received)
              /\ Ids(lastCb'[k].arg) \cap cleared = {}]_vars

\* C23 witness: after a clear discarded a frame and after stop() was called,
\* the inbound loop has handed over a payload
C23_Witness ==
    /\ cleared # {}
    /\ caller.stopCalls > 0 /\ ~is_running
    /\ \E k \in DOMAIN lastCb : lastCb[k].cb = "on_audio_response"

-----------------------------------------------------------------------------
\* Claims about stop()

\* C21: once stop() has been called on a session whose start() returned True,
\* the inbound loop and the keep-alive pulse both end, by their own next test
\* of is_running, ws and is_connected or by the failure of recv() on the closed
\* connection, provided the threads are scheduled.
C21_ThreadsEndAfterStop ==
    (caller.pc = "stopped") ~> (Alive(rcv) = 0 /\ Alive(ka) = 0)

\* C21 witness: after stop() on a started session both threads have ended
C21_Witness ==
    /\ caller.pc = "stopped"
    /\ Len(rcv) = 1 /\ Len(ka) = 1
    /\ Alive(rcv) = 0 /\ Alive(ka) = 0
    /\ ~is_running

\* C22 (as claimed): when stop() has returned, stream_buffer and audio_buffer
\* are empty, ws is cleared, and is_running and is_connected are False.
C22_StopDiscardsAudio ==
    lastOp.op = "stop" =>
        /\ stream_buffer = <<>>
        /\ audio_buffer = <<>>
        /\ ws = None
        /\ ~is_running
        /\ ~is_connected

\* C24 (as claimed): every read and write of is_connected, is_running and
\* stream_buffer by a thread of a session is made while that thread holds the
\* session's own _lock.
C24_AccessesUnderLock ==
    lastAccess # NoAccess => lastAccess.held

\* C25: stop() clears is_running no later than is_connected, so no state
\* inside stop() has is_running set and is_connected cleared, and a recv()
\* failure after stop() closed the socket is taken as intentional: it is not
\* treated as an error and no callback is invoked.
C25_ShutdownIsIntentional ==
    /\ caller.pc = "stopping" => ~(is_running /\ ~is_connected)
    /\ lastOp.op = "receive_failed" /\ caller.pc = "stopped" =>
           lastOp.ret = "intentional" /\ lastCb = <<>>

\* stop() closed the socket under a blocked recv(), which then failed
C25_Witness ==
    /\ caller.pc = "stopped"
    /\ lastOp.op = "receive_failed"
    /\ lastOp.ret = "intentional"
    /\ \E i \in DOMAIN rcv : rcv[i].pc = "done" /\ rcv[i].conn # None
    /\ ~is_running /\ ~is_connected

\* C26: a KeepAlive send that raises neither ends the pulse nor escapes it; an
\* iteration sends only with the session connected, and the pulse ends only
\* when it finds is_running cleared.
C26_PulseSurvivesFailedSend ==
    [][/\ lastOp'.op = "keep_alive" /\ lastOp'.ret = "send_raises" =>
            ka'[lastOp'.by].pc = "loop"
       /\ lastOp'.op = "keep_alive" /\ lastSent' # <<>> =>
            /\ is_connected /\ ws # None
            /\ lastSent' = <<[conn |-> ws, kind |-> "KeepAlive", call |-> ""]>>
       /\ \A j \in DOMAIN ka :
            ka[j].pc # "done" /\ ka'[j].pc = "done" => ~is_running]_vars

\* A KeepAlive send raised in a running session and the pulse is back at its
\* loop condition
C26_Witness ==
    /\ lastOp.op = "keep_alive"
    /\ lastOp.ret = "send_raises"
    /\ is_running /\ is_connected /\ ws \in open
    /\ ka[lastOp.by].pc = "loop"

\* C27: a send_audio or send_raw_pcm call whose ws.send raises returns with
\* is_connected and is_running as they were and nothing sent; is_connected
\* goes from True to False only in the exception branch of the inbound loop
\* or in stop().
C27_SendErrorKeepsSession ==
    [][/\ lastOp'.op \in {"send_audio", "send_raw_pcm"} =>
            /\ is_connected' = is_connected
            /\ is_running' = is_running
            /\ ws' = ws
            /\ lastOp'.ret = "send_raises" => lastSent' = <<>> /\ lastCb' = <<>>
       /\ is_connected /\ ~is_connected' =>
            lastOp'.op \in {"receive_failed", "stop"}]_vars

\* ws.send raised on an open connection of a running session
C27_Witness ==
    /\ lastOp.op \in {"send_audio", "send_raw_pcm"}
    /\ lastOp.ret = "send_raises"
    /\ is_connected /\ is_running /\ ws \in open

\* C28 (as claimed): a text message that is no JSON, is JSON but no object, or
\* carries a type tag _handle_message has no branch for is skipped: no callback
\* is invoked, is_connected and stream_buffer stay as they were and the inbound
\* loop goes back to its loop condition.
C28_UnusableTextSkipped ==
    [][\A i \in DOMAIN rcv :
          (/\ rcv[i].pc = "got"
           /\ rcv[i].msg.kind = "text"
           /\ rcv[i].msg.json # "object" \/ rcv[i].msg.type \notin EventTypes \cup {"ConversationText"}
           /\ rcv'[i].pc # "got") =>
              /\ lastCb' = <<>>
              /\ is_connected' = is_connected
              /\ stream_buffer' = stream_buffer
              /\ rcv'[i].pc = "loop"]_vars

\* C29: an Error event makes the inbound loop invoke on_error once and nothing
\* else, with the description of the event when it carries one; is_connected,
\* is_running and stream_buffer stay as they were and the loop goes back to its
\* loop condition.
C29_ErrorEventReported ==
    [][\A i \in DOMAIN rcv :
          (/\ rcv[i].pc = "got"
           /\ rcv[i].msg.kind = "text" /\ rcv[i].msg.json = "object"
           /\ rcv[i].msg.type = "Error"
           /\ rcv'[i].pc # "got") =>
              /\ Len(lastCb') = 1
              /\ lastCb'[1].cb = "on_error"
              /\ rcv[i].msg.description # "absent" => lastCb'[1].arg = rcv[i].msg.description
              /\ is_connected' = is_connected
              /\ is_running' = is_running
              /\ stream_buffer' = stream_buffer
              /\ rcv'[i].pc = "loop"]_vars

\* An Error event with a description has been reported on a connected session
\* holding audio
C29_Witness ==
    /\ lastMsg.kind = "text" /\ lastMsg.type = "Error" /\ lastMsg.description = "d"
    /\ lastCb = <<Call("on_error", "d")>>
    /\ is_connected /\ is_running
    /\ stream_buffer # <<>>
    /\ \E i \in DOMAIN rcv : rcv[i].pc = "loop"

\* C30: on AgentAudioDone with bytes in stream_buffer, whatever their number,
\* on_audio_response is invoked once with all of them and then on_agent_done,
\* and stream_buffer is empty afterwards; with an empty stream_buffer only
\* on_agent_done is invoked.
C30_DoneFlushesRemainder ==
    [][\A i \in DOMAIN rcv :
          (/\ rcv[i].pc = "got"
           /\ rcv[i].msg.kind = "text" /\ rcv[i].msg.json = "object"
           /\ rcv[i].msg.type = "AgentAudioDone"
           /\ rcv'[i].pc # "got") =>
              /\ lastCb' = IF stream_buffer # <<>>
                           THEN <<Call("on_audio_response", stream_buffer),
                                  Call("on_agent_done", <<>>)>>
                           ELSE <<Call("on_agent_done", <<>>)>>
              /\ stream_buffer' = <<>>
              /\ rcv'[i].pc = "loop"]_vars

\* AgentAudioDone has flushed a remainder below the threshold
C30_Witness ==
    /\ lastMsg.kind = "text" /\ lastMsg.type = "AgentAudioDone"
    /\ Len(lastCb) = 2
    /\ lastCb[1].cb = "on_audio_response"
    /\ Size(lastCb[1].arg) > 0 /\ Size(lastCb[1].arg) < stream_buffer_size
    /\ lastCb[2].cb = "on_agent_done"
    /\ stream_buffer = <<>>

\* C31: with one caller, the frames written to the connection carry strictly
\* increasing call numbers: no chunk is sent twice or ahead of a chunk of an
\* earlier call, and every frame belongs to a call that was made.
C31_FramesInCallOrder ==
    /\ \A k \in DOMAIN wire : wire[k] \in 1..nChunks
    /\ \A j, k \in DOMAIN wire : j < k => wire[j] < wire[k]

\* Two chunks went out with a dropped chunk between them
C31_Witness ==
    /\ Len(wire) >= 2
    /\ \E k \in 1..(Len(wire) - 1) : wire[k + 1] > wire[k] + 1

\* C32 (as claimed): a start() that returns True has sent exactly one Settings
\* message on the connection it opened, before any audio frame of a caller.
C32_SettingsSentOnce ==
    (lastOp.op = "start" /\ lastOp.ret = "true") =>
        /\ lastSent = <<[conn |-> ws, kind |-> "Settings", call |-> ""]>>
        /\ wire = <<>>

\* C33: start() sleeps after every failed connection attempt but the last
\* one it may make, 2 seconds the first time and twice the previous delay each
\* further time.
C33_BackoffDoubles ==
    (lastOp.op = "start" /\ lastOp.connLog # <<>>) =>
        LET failed == Len(SelectSeq(lastOp.connLog, LAMBDA ok : ~ok))
        IN  /\ Len(lastOp.sleeps) = IF lastOp.connected THEN failed ELSE failed - 1
            /\ \A k \in DOMAIN lastOp.sleeps : lastOp.sleeps[k] = 2 * 2 ^ (k - 1)
            /\ ~lastOp.connected => failed = max_retries /\ lastOp.ret = "false"

\* start() gave up after its third failed attempt, having waited 2 and 4 seconds
C33_Witness ==
    /\ lastOp.op = "start"
    /\ lastOp.connLog = <<FALSE, FALSE, FALSE>>
    /\ lastOp.sleeps = <<2, 4>>
    /\ lastOp.ret = "false"

\* C34 (as claimed): when start() has returned False, is_connected and
\* is_running are False, the session holds no open connection and neither
\* background thread of it is running.
C34_FailedStartLeavesNothing ==
    (lastOp.op = "start" /\ lastOp.ret = "false") =>
        /\ ~is_connected
        /\ ~is_running
        /\ ws \notin open
        /\ Alive(rcv) = 0
        /\ Alive(ka) = 0

\* C35 (as claimed): once stop() has returned, no step of the session invokes
\* a callback.
C35_NoCallbackAfterStop ==
    caller.pc = "stopped" => lastCb = <<>>

\* C36 (as claimed): when every handler has returned, active_agents and
\* session_modes hold the same ids, and an id's mode is 'voice_agent' exactly
\* when its entry is a duplex session whose start() returned True; otherwise
\* the mode is 'legacy' and the entry a fallback session.
C36_RegistryAndModesAgree ==
    AllReturned =>
        \A sid \in AllIds :
            /\ (active_agents[sid] # None) <=> (session_modes[sid] # "absent")
            /\ active_agents[sid] # None =>
                  IF sessions[active_agents[sid]].kind = "voice_agent"
                     /\ sessions[active_agents[sid]].started
                  THEN session_modes[sid] = "voice_agent"
                  ELSE /\ session_modes[sid] = "legacy"
                       /\ sessions[active_agents[sid]].kind = "legacy"

\* C37: when a callback invoked by the inbound loop raises, the exception
\* stays in the receiver thread and is handled like a receive failure: the loop
\* ends with is_connected False, and is_running is left as it was (True until
\* stop() is called).
C37_CallbackFailureEndsLoop ==
    [][\A i \in DOMAIN rcv :
          (rcv[i].pc = "got" /\ lastOp'.op = "callback_raised") =>
              /\ rcv'[i].pc = "done"
              /\ ~is_connected'
              /\ is_running' = is_running
              /\ caller'.pc # "stopped" => is_running']_vars

\* A callback raised in a running session: the loop is over, the session still
\* marked running
C37_Witness ==
    /\ lastOp.op = "callback_raised"
    /\ lastCb # <<>>
    /\ caller.pc = "started"
    /\ is_running /\ ~is_connected
    /\ \E i \in DOMAIN rcv : rcv[i].pc = "done"

\* The chunks that were taken from audio_buffer in some batch
Batched == UNION {Ids(vaLog.batches[b]) : b \in DOMAIN vaLog.batches}

\* C38: in the fallback session at most one worker runs at a time, and only
\* while _processing is set; no chunk is in two batches or twice in one, and a
\* chunk in a batch is no longer in audio_buffer.
C38_OnePipelineAtATime ==
    /\ Alive(workers) <= 1
    /\ Alive(workers) = 1 => va._processing
    /\ \A a, b \in DOMAIN vaLog.batches :
          a # b => Ids(vaLog.batches[a]) \cap Ids(vaLog.batches[b]) = {}
    /\ \A a \in DOMAIN vaLog.batches :
          Cardinality(Ids(vaLog.batches[a])) = Len(vaLog.batches[a])
    /\ Ids(va.audio_buffer) \cap Batched = {}

\* A second worker has been started after the first ended, and a chunk that
\* arrived meanwhile waits in audio_buffer
C38_Witness ==
    /\ Len(workers) = 2
    /\ workers[1].pc = "done" /\ workers[2].pc = "running"
    /\ va._processing
    /\ va.audio_buffer # <<>>

\* C39 (as claimed): every chunk in audio_buffer is eventually taken in a
\* batch or discarded by cleanup(), also when no further audio arrives.
C39_ChunksNotStranded ==
    \A c \in 1..MaxAudio :
        (c \in Ids(va.audio_buffer)) ~> (c \in Batched \/ c \in vaLog.discarded)

-----------------------------------------------------------------------------
\* Claims about audio handed to the session

\* C17: a send_audio or send_raw_pcm call on a session whose is_connected is
\* False (never started, stopped, failed to start, or marked by the inbound
\* loop) sends nothing to the endpoint, invokes no callback and leaves
\* is_running, is_connected, ws and both buffers as they were.
C17_SendOnInactiveIsNoOp ==
    (lastOp.op \in {"send_audio", "send_raw_pcm"} /\ ~lastOp.pre[2]) =>
        /\ lastSent = <<>>
        /\ lastCb = <<>>
        /\ lastOp.errs = 0
        /\ SessionState = lastOp.pre

\* C17 witness: send_audio has been called with a WebM chunk on a running
\* session that the inbound loop marked not connected
C17_Witness ==
    /\ lastOp.op = "send_audio" /\ lastOp.chunk = "webm" /\ lastOp.is_webm
    /\ is_running /\ ~is_connected /\ ws # None
    /\ \E i \in DOMAIN rcv : rcv[i].pc = "done"
    /\ lastSent = <<>>

-----------------------------------------------------------------------------
\* Claims about the appointment tools

\* C9: check_availability_tool reports "available" exactly when
\* is_slot_available returned True, "busy" exactly when it returned False, and
\* "error" when it returned None or raised.
C9_AvailabilityStatus ==
    lastTool.tool = "check_availability" =>
        /\ lastTool.status = "available" <=> lastTool.is_free = "True"
        /\ lastTool.status = "busy" <=> lastTool.is_free = "False"
        /\ lastTool.is_free \in {"None", "raises"} => lastTool.status = "error"

\* The calendar could not be asked about a slot that holds an event
C9_Witness ==
    /\ lastTool.tool = "check_availability"
    /\ lastTool.is_free = "None"
    /\ lastTool.status = "error"
    /\ lastTool.slot \in calendar

\* C10: book_appointment_tool reports "success" exactly when create_event
\* returned an event, whatever the write to the appointments table did.
C10_BookingStatus ==
    lastTool.tool = "book_appointment" =>
        (lastTool.status = "success" <=> lastTool.event = "event")

\* The event was created, the write to the appointments table raised
C10_Witness ==
    /\ lastTool.tool = "book_appointment"
    /\ lastTool.event = "event"
    /\ lastTool.db = "raises"
    /\ lastTool.status = "success"
    /\ lastTool.slot \in calendar
    /\ lastTool.slot \notin appointments

\* The blob is JSON for an object with every field the tool's schema requires
\* (date_time; user_name, user_email and start_time), the date in ISO 8601
Complete(tool, args) ==
    IF tool = "check_availability" THEN CheckArgsParse(args) ELSE args = "valid"

\* C11 (as claimed): a tool called with an argument blob that is no JSON, lacks
\* a field or carries a date that is not ISO 8601, or whose collaborator failed,
\* returns an object with status "error" and a msg, and raises nothing.
C11_FailuresBecomeErrors ==
    lastTool.tool # "none" =>
        /\ ~lastTool.raised
        /\ lastTool.msg
        /\ (\/ ~Complete(lastTool.tool, lastTool.args)
            \/ lastTool.is_free \in {"None", "raises"}
            \/ lastTool.event \in {"None", "raises"}) => lastTool.status = "error"

\* The transcoding library is installed
Init == InitAgent /\ pydub_available = TRUE /\ InitRegistry /\ InitTools /\ InitLock /\ InitWire /\ InitLegacy

Spec == Init /\ [][Next]_vars

SpecStop == Init /\ [][NextStop]_vars

SpecRestart == Init /\ [][NextRestart]_vars

SpecRegistry == Init /\ [][NextRegistry]_vars

SpecRegistryConc == Init /\ [][NextRegistryConc]_vars

SpecTools == Init /\ [][NextTools]_vars

\* The background threads are scheduled and the network delivers its failures
FairThreads ==
    /\ \A i \in 1..MaxStarts :
          WF_vars(i \in DOMAIN rcv /\ (\/ RcvCheck(i) \/ RcvFail(i) \/ ProcBinary(i)
                                        \/ ProcBadJson(i) \/ ProcEvent(i)))
    /\ \A j \in 1..MaxStarts : WF_vars(j \in DOMAIN ka /\ (KaCheck(j) \/ \E f \in BOOLEAN : KaWake(j, f)))

SpecInterleaved == Init /\ [][NextInterleaved]_vars

SpecStopSteps == Init /\ [][NextStopSteps]_vars

SpecCallbacks == Init /\ [][NextCallbacks]_vars

SpecLegacy == Init /\ [][NextLegacy]_vars

\* Timers fire, a started call of _process_buffered_audio returns, workers end,
\* and a call of process_audio_chunk or cleanup() that has begun goes on; the
\* browser need not send audio and nobody need call cleanup()
FairLegacy ==
    /\ \A t \in 1..MaxAudio : WF_vars(t \in DOMAIN timers /\ TimerFire(t))
    /\ \A t \in 1..MaxAudio :
          WF_vars(t \in DOMAIN timers /\ \E f \in BOOLEAN : TimerProcess(t, f))
    /\ \A w \in 1..MaxAudio : WF_vars(w \in DOMAIN workers /\ WorkerDone(w))
    /\ WF_vars(\E l \in ChunkSizes : PacAppend(l))
    /\ WF_vars(CleanupCancel \/ CleanupClear)

SpecLegacyFair == Init /\ [][NextLegacy]_vars /\ FairLegacy

SpecLock == Init /\ [][NextLock]_vars

SpecFair == Init /\ [][Next]_vars /\ FairThreads

SpecStopFair == Init /\ [][NextStop]_vars /\ FairThreads

\* With or without the transcoding library, for the only actions that read
\* PYDUB_AVAILABLE
InitSend ==
    InitAgent /\ pydub_available \in BOOLEAN /\ InitRegistry /\ InitTools /\ InitLock /\ InitWire /\ InitLegacy

SpecSend == InitSend /\ [][NextSend]_vars

SpecWire == InitSend /\ [][NextWire]_vars

SpecSendTraffic == InitSend /\ [][NextSendTraffic]_vars

====
